---- MODULE Spec2Model ----
(***************************************************************************)
(* FluxFox: TrackData (src/trackdata.rs) and DiskImage (src/diskimage.rs). *)
(*                                                                         *)
(* A track is either a BitStream (an MFM cell stream plus the metadata the *)
(* System34 parser derived from it) or a ByteStream (sector records over a *)
(* flat payload buffer).  The cell stream is kept one symbol per encoded   *)
(* byte (16 cells): a symbol below 256 is a byte with its regular MFM      *)
(* clock, a symbol 256 + b is byte b written with the missing-clock sync   *)
(* pattern of an address mark.  Offsets into the stream are in cells, as   *)
(* in the source.                                                          *)
(***************************************************************************)
EXTENDS Integers, Sequences, FiniteSets, TLC

VARIABLES track, res, last_write, disk, dres

vars == <<track, res, last_write, disk, dres>>

(***************************************************************************)
(* Option<T>: None is the empty tuple, Some(x) the tuple <<x>>.            *)
(***************************************************************************)
None == <<>>

Some(x) == <<x>>

Unwrap(o) == o[1]

\* F applied to the value of v, with v evaluated once.
Bind(v, F(_)) == CHOOSE y \in {F(x) : x \in {v}} : TRUE

(***************************************************************************)
(* Geometry: DiskChs, DiskChsn (chs.rs)                                    *)
(***************************************************************************)
DiskChs(c, h, s) == [c |-> c, h |-> h, s |-> s]

DiskChsn(c, h, s, n) == [c |-> c, h |-> h, s |-> s, n |-> n]

\* DiskChs::from(DiskChsn): drops N.
ChsFromChsn(chsn) == [c |-> chsn.c, h |-> chsn.h, s |-> chsn.s]

\* DiskChsn::n_to_bytes: payload size of size code n.
NToBytes(n) == 128 * (2 ^ n)

\* DiskChsn::n_size
NSize(chsn) == NToBytes(chsn.n)

Min(a, b) == IF a < b THEN a ELSE b

(***************************************************************************)
(* CRC-CCITT (util.rs): polynomial 0x1021, initial value 0xFFFF unless a   *)
(* seed is given, no final XOR, most significant bit first.                *)
(***************************************************************************)
\* x with the bit of weight k (a power of two) flipped.
FlipBit(x, k) == IF (x \div k) % 2 = 1 THEN x - k ELSE x + k

\* x XOR 0x1021
XorPoly(x) == FlipBit(FlipBit(FlipBit(x, 4096), 32), 1)

RECURSIVE Xor8(_, _, _)
\* a XOR b over the bits of weight k, 2k, .. 128 (call with k = 1).
Xor8(a, b, k) ==
    IF k > 128 THEN 0
    ELSE (IF (a \div k) % 2 = (b \div k) % 2 THEN 0 ELSE k) + Xor8(a, b, k * 2)

RECURSIVE CrcShift(_, _)
\* i shift steps of the 16-bit register.
CrcShift(crc, i) ==
    IF i = 0 THEN crc
    ELSE CrcShift(IF crc >= 32768 THEN XorPoly((crc * 2) % 65536)
                                  ELSE crc * 2,
                  i - 1)

\* Byte-wise tables of the two bit-level operators above.
XorTab == [a \in 0..255 |-> [b \in 0..255 |-> Xor8(a, b, 1)]]

CrcTab == [i \in 0..255 |-> CrcShift(i * 256, 8)]

\* One byte through the register: (crc << 8) XOR CrcTab[(crc >> 8) XOR b].
CrcByte(crc, b) ==
    LET t == CrcTab[XorTab[crc \div 256][b]]
    IN  (XorTab[crc % 256][t \div 256] * 256) + (t % 256)

RECURSIVE CrcRange(_, _, _, _)
\* The register after bytes[lo..hi] went through it, starting from crc.
CrcRange(bytes, lo, hi, crc) ==
    IF lo > hi \/ crc < 0 THEN crc
    ELSE IF lo = hi THEN CrcByte(crc, bytes[lo])
    ELSE LET mid == (lo + hi) \div 2
         IN  CrcRange(bytes, mid + 1, hi, CrcRange(bytes, lo, mid, crc))

\* crc_ccitt(data, seed)
crc_ccitt(bytes, seed) ==
    CrcRange(bytes, 1, Len(bytes), IF seed = None THEN 65535 ELSE Unwrap(seed))

\* u16::to_be_bytes
ToBeBytes(w) == <<w \div 256, w % 256>>

(***************************************************************************)
(* MFM codec (bitstream/mfm.rs).  MFM_BYTE_LEN cells hold one byte.        *)
(***************************************************************************)
MFM_BYTE_LEN == 16

\* The three sync bytes of an address mark, written with missing clocks.
SyncA1 == 256 + 161
SyncC2 == 256 + 194

\* encode_mfm of one byte with its regular clock; decoding drops the clock.
MfmEncode(b) == b
MfmDecode(sym) == sym % 256

\* MfmCodec::len(): the stream length in cells.
MfmLen(stream) == MFM_BYTE_LEN * Len(stream.sym)

\* seek(SeekFrom::Start(half_bit_offset)): the read cursor, in cells.
MfmSeek(half_bit_offset) == half_bit_offset * 2

\* The bytes a run of cells decodes to, and the cells bytes encode to.
MfmDecodeAll(syms) == [i \in 1..Len(syms) |-> MfmDecode(syms[i])]
MfmEncodeAll(bytes) == [i \in 1..Len(bytes) |-> MfmEncode(bytes[i])]

\* read_exact: count bytes decoded from the cursor on, None (an io error)
\* when the stream ends before count bytes were read.
MfmReadExact(stream, cursor, count) ==
    IF (cursor \div MFM_BYTE_LEN) + count > Len(stream.sym)
    THEN None
    ELSE Some(Bind(SubSeq(stream.sym, (cursor \div MFM_BYTE_LEN) + 1,
                          (cursor \div MFM_BYTE_LEN) + count),
                   MfmDecodeAll))

\* write_buf(src, cell_offset): src encoded over the cells from cell_offset
\* on; None (an io error) when src does not fit.
MfmWriteBuf(stream, src, cell_offset) ==
    IF (cell_offset \div MFM_BYTE_LEN) + Len(src) > Len(stream.sym)
    THEN None
    ELSE Some([stream EXCEPT !.sym =
                 SubSeq(@, 1, cell_offset \div MFM_BYTE_LEN)
                 \o Bind(src, MfmEncodeAll)
                 \o SubSeq(@, (cell_offset \div MFM_BYTE_LEN) + Len(src) + 1,
                           Len(@))])

\* MfmCodec::has_weak_bits
MfmHasWeakBits(stream) == stream.weak # {}

(***************************************************************************)
(* System 34 structural parser (structure_parsers/system34.rs)             *)
(***************************************************************************)
IDAM_MARKER_BYTES == <<161, 161, 161, 254>>
DAM_MARKER_BYTES  == <<161, 161, 161, 251>>
DDAM_MARKER_BYTES == <<161, 161, 161, 248>>

\* The kind of the address mark whose first sync byte is symbol i, or None.
MarkerAt(sym, i) ==
    IF i + 3 > Len(sym) THEN None
    ELSE IF sym[i] = SyncA1 /\ sym[i + 1] = SyncA1 /\ sym[i + 2] = SyncA1
         THEN (CASE sym[i + 3] = 254 -> Some("Idam")
                 [] sym[i + 3] = 251 -> Some("Dam")
                 [] sym[i + 3] = 248 -> Some("Ddam")
                 [] OTHER -> None)
    ELSE IF sym[i] = SyncC2 /\ sym[i + 1] = SyncC2 /\ sym[i + 2] = SyncC2
              /\ sym[i + 3] = 252
         THEN Some("Iam")
    ELSE None

RECURSIVE Ascending(_)
\* The numbers of the finite set S, in ascending order.
Ascending(S) ==
    IF S = {} THEN <<>>
    ELSE LET m == CHOOSE x \in S : \A y \in S : x <= y
         IN  <<m>> \o Ascending(S \ {m})

\* scan_track_markers: every address mark with its cell offset, in track
\* order.  Only an MFM stream is scanned.
ScanTrackMarkers(stream) ==
    IF stream.codec # "Mfm" THEN <<>>
    ELSE LET at == Ascending({i \in 1..Len(stream.sym) :
                                 MarkerAt(stream.sym, i) # None})
         IN  [k \in 1..Len(at) |->
                [kind |-> Unwrap(MarkerAt(stream.sym, at[k])),
                 start |-> (at[k] - 1) * MFM_BYTE_LEN]]

MetadataItem(elem, start, end, chsn, address_crc, data_crc, deleted) ==
    [elem |-> elem, start |-> start, end |-> end, chsn |-> chsn,
     address_crc |-> address_crc, data_crc |-> data_crc, deleted |-> deleted]

\* The item of an IDAM at cell offset start: C, H, R, N and two CRC bytes
\* follow the four marker bytes.  None when the stream ends inside it.
ScanIdam(stream, start) ==
    LET rd == MfmReadExact(stream, start, 10)
    IN  IF rd = None THEN None
        ELSE LET b == Unwrap(rd)
             IN  Some(MetadataItem("Idam", start, start + 10 * MFM_BYTE_LEN,
                        Some(DiskChsn(b[5], b[6], b[7], b[8])),
                        crc_ccitt(SubSeq(b, 1, 8), None) = b[9] * 256 + b[10],
                        FALSE, FALSE))

\* The item of a DAM or DDAM at cell offset start that follows the IDAM
\* item idam: 128 << N payload bytes and two CRC bytes follow the marker.
ScanData(stream, start, deleted, idam) ==
    LET n == Unwrap(idam.chsn).n
        size == IF n <= 7 THEN NToBytes(n) ELSE 0
        rd == MfmReadExact(stream, start, 4 + size + 2)
    IN  IF n > 7 \/ rd = None THEN None
        ELSE LET b == Unwrap(rd)
             IN  Some(MetadataItem("Data", start,
                        start + (4 + size + 2) * MFM_BYTE_LEN,
                        idam.chsn, idam.address_crc,
                        crc_ccitt(SubSeq(b, 1, 4 + size), None)
                            = b[4 + size + 1] * 256 + b[4 + size + 2],
                        deleted))

RECURSIVE ScanFrom(_, _, _, _)
\* last_idam: the item of the most recent IDAM no data field has followed.
ScanFrom(stream, markers, k, last_idam) ==
    IF k > Len(markers) THEN <<>>
    ELSE LET m == markers[k]
         IN  CASE m.kind = "Idam" ->
                    LET it == ScanIdam(stream, m.start)
                    IN  it \o ScanFrom(stream, markers, k + 1, it)
               [] m.kind \in {"Dam", "Ddam"} ->
                    LET it == IF last_idam = None THEN None
                              ELSE ScanData(stream, m.start, m.kind = "Ddam",
                                            Unwrap(last_idam))
                    IN  it \o ScanFrom(stream, markers, k + 1, None)
               [] OTHER ->
                    <<MetadataItem("Iam", m.start, m.start + 4 * MFM_BYTE_LEN,
                                   None, FALSE, FALSE, FALSE)>>
                    \o ScanFrom(stream, markers, k + 1, last_idam)

\* scan_track_metadata: the metadata items of the stream, by ascending start.
ScanTrackMetadata(stream, markers) == ScanFrom(stream, markers, 1, None)

\* DiskStructureMetadata::get_sector_ids: the CHSN of every IDAM, in track order.
GetSectorIds(metadata) ==
    LET idams == SelectSeq(metadata, LAMBDA it : it.elem = "Idam" /\ it.chsn # None)
    IN  [i \in 1..Len(idams) |-> Unwrap(idams[i].chsn)]

(***************************************************************************)
(* TrackData (trackdata.rs)                                                *)
(***************************************************************************)
\* TrackData::get_sector_bit_index, the loop over metadata.items from item k
\* on.  The result is None or Some of (start, chsn, address_crc, data_crc,
\* deleted) of the Data item returned.
RECURSIVE SectorBitIndexFrom(_, _, _, _, _, _)
SectorBitIndexFrom(items, k, seek_chs, n, last_idam_matched, idam_chsn) ==
    IF k > Len(items) THEN None
    ELSE LET mdi == items[k]
         IN  CASE mdi.elem = "Idam" ->
                    SectorBitIndexFrom(items, k + 1, seek_chs, n,
                        IF mdi.chsn # None
                           /\ ChsFromChsn(Unwrap(mdi.chsn)) = seek_chs
                           /\ (n = None \/ Unwrap(mdi.chsn).n = Unwrap(n))
                        THEN TRUE ELSE last_idam_matched,
                        mdi.chsn)
               [] mdi.elem = "Data" ->
                    IF last_idam_matched
                    THEN Some([start |-> mdi.start, chsn |-> Unwrap(idam_chsn),
                               address_crc |-> mdi.address_crc,
                               data_crc |-> mdi.data_crc,
                               deleted |-> mdi.deleted])
                    ELSE SectorBitIndexFrom(items, k + 1, seek_chs, n,
                                            last_idam_matched, idam_chsn)
               [] OTHER ->
                    SectorBitIndexFrom(items, k + 1, seek_chs, n,
                                       last_idam_matched, idam_chsn)

get_sector_bit_index(t, seek_chs, n) ==
    IF t.kind = "BitStream"
    THEN SectorBitIndexFrom(t.metadata, 1, seek_chs, n, FALSE, None)
    ELSE None

\* ReadSectorResult, with the error of a failed call in status.
ReadResult(status, data_idx, data_len, read_buf, deleted_mark, address_crc_error, data_crc_error, wrong_cylinder, wrong_head) ==
    [status |-> status, data_idx |-> data_idx, data_len |-> data_len,
     read_buf |-> read_buf, deleted_mark |-> deleted_mark, not_found |-> FALSE,
     address_crc_error |-> address_crc_error,
     data_crc_error |-> data_crc_error,
     wrong_cylinder |-> wrong_cylinder, wrong_head |-> wrong_head]

ReadErr(e) == ReadResult(e, 0, 0, <<>>, FALSE, FALSE, FALSE, FALSE, FALSE)

\* read_sector, BitStream arm: the result once the decoder has read, rd
\* being what read_exact delivered.
ReadSectorDecoded(idx, scope, data_len, rd) ==
    IF rd = None THEN ReadErr("IoError")
    ELSE ReadResult("Ok", IF scope = "DataBlock" THEN 4 ELSE 0, data_len,
                    Unwrap(rd), idx.deleted, ~idx.address_crc, ~idx.data_crc,
                    FALSE, FALSE)

\* read_sector without the early return on an invalid address CRC: the
\* data is read whatever the address CRC is.
ReadSectorFoundUnguarded(t, bit_index, n, scope, debug) ==
    IF bit_index = None THEN ReadErr("DataError")
    ELSE
    LET idx == Unwrap(bit_index)
        scope_read_off == IF scope = "DataBlock" THEN 0 ELSE 32
        scope_data_adj == IF scope = "DataBlock" THEN 6 ELSE 0
        size_mismatch == n # None /\ ~debug /\ idx.chsn.n # Unwrap(n)
        data_len == IF n # None /\ debug THEN NToBytes(Unwrap(n))
                    ELSE NSize(idx.chsn)
    IN  IF size_mismatch THEN ReadErr("DataError")
        ELSE Bind(MfmReadExact(t.data,
                               MfmSeek((idx.start \div 2) + scope_read_off),
                               data_len + scope_data_adj),
                  LAMBDA rd : ReadSectorDecoded(idx, scope, data_len, rd))

\* read_sector, BitStream arm, from the match on bit_index on.
ReadSectorFound(t, bit_index, n, scope, debug) ==
    IF bit_index = None THEN ReadErr("DataError")
    ELSE
    LET idx == Unwrap(bit_index)
        address_crc_error == ~idx.address_crc
        scope_read_off == IF scope = "DataBlock" THEN 0 ELSE 32
        scope_data_adj == IF scope = "DataBlock" THEN 6 ELSE 0
        size_mismatch == n # None /\ ~debug /\ idx.chsn.n # Unwrap(n)
        data_len == IF n # None /\ debug THEN NToBytes(Unwrap(n))
                    ELSE NSize(idx.chsn)
    IN  IF address_crc_error /\ ~debug
        THEN ReadResult("Ok", 0, 0, <<>>, FALSE, TRUE, FALSE, FALSE, FALSE)
        ELSE IF size_mismatch THEN ReadErr("DataError")
        ELSE Bind(MfmReadExact(t.data,
                               MfmSeek((idx.start \div 2) + scope_read_off),
                               data_len + scope_data_adj),
                  LAMBDA rd : ReadSectorDecoded(idx, scope, data_len, rd))

\* read_sector, BitStream arm with an MFM stream.
ReadSectorBitStream(t, chs, n, scope, debug) ==
    Bind(get_sector_bit_index(t, chs, n),
         LAMBDA bit_index : ReadSectorFound(t, bit_index, n, scope, debug))

\* read_sector, ByteStream arm: the loop over the sector records from k on.
RECURSIVE ReadByteStreamFrom(_, _, _, _)
ReadByteStreamFrom(t, k, chs, acc) ==
    IF k > Len(t.sectors) THEN acc
    ELSE LET si == t.sectors[k]
             data_len == Min(si.t_idx + si.len, Len(t.data)) - si.t_idx
         IN  IF si.sector_id = chs.s
             THEN ReadByteStreamFrom(t, k + 1, chs,
                    [acc EXCEPT
                       !.data_len = data_len,
                       !.read_buf = @ \o SubSeq(t.data, si.t_idx + 1,
                                                si.t_idx + data_len),
                       !.data_crc_error = @ \/ si.data_crc_error,
                       !.wrong_cylinder = @ \/ (si.cylinder_id # chs.c),
                       !.deleted_mark = @ \/ si.deleted_mark])
             ELSE ReadByteStreamFrom(t, k + 1, chs, acc)

ReadSectorByteStream(t, chs, n, scope, debug) ==
    IF scope = "DataBlock" THEN ReadErr("Panic")
    ELSE ReadByteStreamFrom(t, 1, chs,
            ReadResult("Ok", 0, 0, <<>>, FALSE, FALSE, FALSE, FALSE, FALSE))

\* TrackData::read_sector
read_sector(t, chs, n, scope, debug) ==
    IF t.kind = "BitStream" /\ t.data.codec = "Mfm"
    THEN ReadSectorBitStream(t, chs, n, scope, debug)
    ELSE IF t.kind = "ByteStream"
    THEN ReadSectorByteStream(t, chs, n, scope, debug)
    ELSE ReadErr("UnsupportedFormat")

\* WriteSectorResult with the error of a failed call in status, and the
\* track the call leaves behind.
WriteResult(status, address_crc_error, wrong_cylinder, wrong_head, t) ==
    [status |-> status, not_found |-> FALSE,
     address_crc_error |-> address_crc_error,
     wrong_cylinder |-> wrong_cylinder, wrong_head |-> wrong_head,
     track |-> t]

WriteErr(e, t) == WriteResult(e, FALSE, FALSE, FALSE, t)

\* write_sector, BitStream arm: the CRC of mark and payload written after
\* the payload, w1 being what the write of the payload delivered.
WriteSectorCrc(t, idx, payload, w1, wrong_cylinder, wrong_head) ==
    IF w1 = None THEN WriteErr("IoError", t)
    ELSE LET mark_bytes == IF idx.deleted THEN DDAM_MARKER_BYTES
                           ELSE DAM_MARKER_BYTES
             crc == crc_ccitt(payload, Some(crc_ccitt(mark_bytes, None)))
         IN  Bind(MfmWriteBuf(Unwrap(w1), ToBeBytes(crc),
                              idx.start + (4 + Len(payload)) * MFM_BYTE_LEN),
                  LAMBDA w2 :
                    IF w2 = None
                    THEN WriteErr("IoError", [t EXCEPT !.data = Unwrap(w1)])
                    ELSE WriteResult("Ok", FALSE, wrong_cylinder, wrong_head,
                                     [t EXCEPT !.data = Unwrap(w2)]))

\* write_sector, BitStream arm: the payload written past the data mark.
WriteSectorData(t, idx, payload, wrong_cylinder, wrong_head) ==
    Bind(MfmWriteBuf(t.data, payload, idx.start + 4 * MFM_BYTE_LEN),
         LAMBDA w1 : WriteSectorCrc(t, idx, payload, w1,
                                    wrong_cylinder, wrong_head))

\* write_sector without the validation of the buffer size: as much of
\* write_data as fits the sector is written.
WriteSectorFoundUnchecked(t, bit_index, chs, n, write_data, write_deleted, debug) ==
    IF bit_index = None THEN WriteErr("DataError", t)
    ELSE
    LET idx == Unwrap(bit_index)
        wrong_cylinder == idx.chsn.c # chs.c
        wrong_head == idx.chsn.h # chs.h
        address_crc_error == ~idx.address_crc
        n_mismatch == n # None /\ ~debug /\ idx.chsn.n # Unwrap(n)
        data_len == IF n # None /\ debug
                    THEN Min(Len(write_data), NToBytes(Unwrap(n)))
                    ELSE Min(Len(write_data), NSize(idx.chsn))
    IN  IF address_crc_error /\ ~debug
        THEN WriteResult("Ok", address_crc_error, wrong_cylinder,
                         wrong_head, t)
        ELSE IF n_mismatch THEN WriteErr("DataError", t)
        ELSE Bind(SubSeq(write_data, 1, data_len),
                  LAMBDA payload : WriteSectorData(t, idx, payload,
                                                   wrong_cylinder, wrong_head))

\* write_sector, BitStream arm, from the match on bit_index on.
WriteSectorFound(t, bit_index, chs, n, write_data, write_deleted, debug) ==
    IF bit_index = None THEN WriteErr("DataError", t)
    ELSE
    LET idx == Unwrap(bit_index)
        wrong_cylinder == idx.chsn.c # chs.c
        wrong_head == idx.chsn.h # chs.h
        address_crc_error == ~idx.address_crc
        n_mismatch == n # None /\ ~debug /\ idx.chsn.n # Unwrap(n)
        data_len == IF n # None /\ debug
                    THEN Min(Len(write_data), NToBytes(Unwrap(n)))
                    ELSE NSize(idx.chsn)
        bad_len == IF n # None
                   THEN ~debug /\ data_len > Len(write_data)
                   ELSE NToBytes(idx.chsn.n) # Len(write_data)
    IN  IF address_crc_error /\ ~debug
        THEN WriteResult("Ok", address_crc_error, wrong_cylinder,
                         wrong_head, t)
        ELSE IF n_mismatch THEN WriteErr("DataError", t)
        ELSE IF bad_len THEN WriteErr("ParameterError", t)
        ELSE Bind(SubSeq(write_data, 1, data_len),
                  LAMBDA payload : WriteSectorData(t, idx, payload,
                                                   wrong_cylinder, wrong_head))

\* write_sector, BitStream arm with an MFM stream.
WriteSectorBitStream(t, chs, n, write_data, write_deleted, debug) ==
    Bind(get_sector_bit_index(t, chs, n),
         LAMBDA bit_index : WriteSectorFound(t, bit_index, chs, n, write_data,
                                             write_deleted, debug))

\* write_sector, ByteStream arm: the loop over the sector records from k on.
RECURSIVE WriteByteStreamFrom(_, _, _, _, _)
WriteByteStreamFrom(t, k, chs, n, write_data) ==
    IF k > Len(t.sectors) THEN WriteResult("Ok", FALSE, FALSE, FALSE, t)
    ELSE LET si == t.sectors[k]
             sector_match == si.sector_id = chs.s
                             /\ (n = None \/ si.n = Unwrap(n))
             write_data_len == Len(write_data)
         IN  IF ~sector_match
             THEN WriteByteStreamFrom(t, k + 1, chs, n, write_data)
             ELSE IF NToBytes(si.n) # write_data_len
             THEN WriteErr("ParameterError", t)
             ELSE IF si.t_idx + write_data_len > Len(t.data)
             THEN WriteErr("Panic", t)
             ELSE WriteResult("Ok", FALSE, si.cylinder_id # chs.c,
                    si.head_id # chs.h,
                    [t EXCEPT !.data =
                       SubSeq(@, 1, si.t_idx) \o write_data
                       \o SubSeq(@, si.t_idx + write_data_len + 1, Len(@))])

\* TrackData::write_sector
write_sector(t, chs, n, write_data, scope, write_deleted, debug) ==
    IF t.kind = "BitStream" /\ t.data.codec = "Mfm"
    THEN WriteSectorBitStream(t, chs, n, write_data, write_deleted, debug)
    ELSE IF t.kind = "ByteStream"
    THEN WriteByteStreamFrom(t, 1, chs, n, write_data)
    ELSE WriteErr("UnsupportedFormat", t)

\* TrackData::get_first_sector_at_bit_index, the loop over metadata.items
\* from item k on: None, or Some of the first Data item that starts at or
\* after bit_index and follows an IDAM that does.
RECURSIVE FirstSectorFrom(_, _, _, _, _)
FirstSectorFrom(items, k, bit_index, last_idam_matched, idam_chsn) ==
    IF k > Len(items) THEN None
    ELSE LET mdi == items[k]
         IN  IF mdi.start < bit_index
             THEN FirstSectorFrom(items, k + 1, bit_index, last_idam_matched,
                                  idam_chsn)
             ELSE CASE mdi.elem = "Idam" ->
                         FirstSectorFrom(items, k + 1, bit_index, TRUE,
                                         mdi.chsn)
                    [] mdi.elem = "Data" ->
                         IF last_idam_matched
                         THEN IF idam_chsn = None THEN None
                              ELSE Some([element_start |-> mdi.start,
                                         element_end |-> mdi.end,
                                         sector_chsn |-> Unwrap(idam_chsn),
                                         address_crc_valid |-> mdi.address_crc,
                                         data_crc_valid |-> mdi.data_crc,
                                         deleted |-> mdi.deleted])
                         ELSE FirstSectorFrom(items, k + 1, bit_index,
                                              last_idam_matched, idam_chsn)
                    [] OTHER ->
                         FirstSectorFrom(items, k + 1, bit_index,
                                         last_idam_matched, idam_chsn)

get_first_sector_at_bit_index(t, bit_index) ==
    IF t.kind = "BitStream"
    THEN FirstSectorFrom(t.metadata, 1, bit_index, FALSE, None)
    ELSE None

\* TrackData::read_exact_at on a BitStream track: count bytes decoded from
\* cell offset on, or the error.
read_exact_at(t, offset, count) ==
    IF t.data.codec # "Mfm" THEN [status |-> "UnsupportedFormat", buf |-> <<>>]
    ELSE Bind(MfmReadExact(t.data, MfmSeek(offset \div 2), count),
              LAMBDA rd : IF rd = None THEN [status |-> "IoError", buf |-> <<>>]
                          ELSE [status |-> "Ok", buf |-> Unwrap(rd)])

\* ReadTrackResult, with the error of a failed call in status.
ReadTrackResult(status, not_found, sectors_read, read_buf, deleted_mark, address_crc_error, data_crc_error) ==
    [status |-> status, not_found |-> not_found,
     sectors_read |-> sectors_read, read_buf |-> read_buf,
     deleted_mark |-> deleted_mark, address_crc_error |-> address_crc_error,
     data_crc_error |-> data_crc_error]

ReadTrackErr(e) == ReadTrackResult(e, FALSE, 0, <<>>, FALSE, FALSE, FALSE)

\* The while loop left after its first iteration: the sector at bit_index is
\* read and no further one is looked for.
ReadAllBitStreamFirstOnly(t, bit_index, n, eot, acc) ==
    IF bit_index = None THEN acc
    ELSE LET tdir == Unwrap(bit_index)
             rd == read_exact_at(t, tdir.element_start + 64, NToBytes(n))
         IN  IF rd.status # "Ok" THEN ReadTrackErr("IoError")
             ELSE ReadTrackResult("Ok", FALSE,
                                  Min(acc.sectors_read + 1, 65535),
                                  acc.read_buf \o rd.buf,
                                  acc.deleted_mark \/ tdir.deleted,
                                  acc.address_crc_error
                                      \/ ~tdir.address_crc_valid,
                                  acc.data_crc_error \/ ~tdir.data_crc_valid)

\* read_all_sectors_bitstream, the while loop from the sector at bit_index
\* on, acc being the result so far.
RECURSIVE ReadAllBitStreamFrom(_, _, _, _, _)
ReadAllBitStreamFrom(t, bit_index, n, eot, acc) ==
    IF bit_index = None THEN acc
    ELSE LET tdir == Unwrap(bit_index)
             rd == read_exact_at(t, tdir.element_start + 64, NToBytes(n))
         IN  IF rd.status # "Ok" THEN ReadTrackErr("IoError")
             ELSE LET acc1 == ReadTrackResult("Ok", FALSE,
                                Min(acc.sectors_read + 1, 65535),
                                acc.read_buf \o rd.buf,
                                acc.deleted_mark \/ tdir.deleted,
                                acc.address_crc_error
                                    \/ ~tdir.address_crc_valid,
                                acc.data_crc_error \/ ~tdir.data_crc_valid)
                  IN  IF tdir.sector_chsn.s = eot THEN acc1
                      ELSE ReadAllBitStreamFrom(t,
                             get_first_sector_at_bit_index(t, tdir.element_end),
                             n, eot, acc1)

\* TrackData::read_all_sectors_bitstream
read_all_sectors_bitstream(t, n, eot) ==
    Bind(get_first_sector_at_bit_index(t, 0),
         LAMBDA bit_index :
           IF bit_index = None THEN ReadTrackErr("DataError")
           ELSE ReadAllBitStreamFrom(t, bit_index, n, eot,
                  ReadTrackResult("Ok", TRUE, 0, <<>>, FALSE, FALSE, FALSE)))

\* read_all_sectors_bytestream, the loop over the sector records from k on,
\* acc being the result so far and last_data_end the end of the last read.
RECURSIVE ReadAllByteStreamFrom(_, _, _, _, _, _)
ReadAllByteStreamFrom(t, k, n, eot, last_data_end, acc) ==
    IF k > Len(t.sectors) THEN acc
    ELSE LET si == t.sectors[k]
             data_len == Min(NToBytes(n), Len(t.data) - si.t_idx)
         IN  IF acc.sectors_read >= eot THEN [acc EXCEPT !.not_found = FALSE]
             ELSE IF si.t_idx < last_data_end
             THEN ReadAllByteStreamFrom(t, k + 1, n, eot, last_data_end,
                                        [acc EXCEPT !.not_found = FALSE])
             ELSE ReadAllByteStreamFrom(t, k + 1, n, eot, si.t_idx + data_len,
                    ReadTrackResult("Ok", FALSE, acc.sectors_read + 1,
                       acc.read_buf \o SubSeq(t.data, si.t_idx + 1,
                                              si.t_idx + data_len),
                       acc.deleted_mark \/ si.deleted_mark,
                       acc.address_crc_error \/ si.address_crc_error,
                       acc.data_crc_error \/ si.data_crc_error))

\* TrackData::read_all_sectors_bytestream
read_all_sectors_bytestream(t, n, eot) ==
    ReadAllByteStreamFrom(t, 1, n, eot, 0,
        ReadTrackResult("Ok", TRUE, 0, <<>>, FALSE, FALSE, FALSE))

\* TrackData::read_all_sectors
read_all_sectors(t, n, eot) ==
    IF t.kind = "BitStream" THEN read_all_sectors_bitstream(t, n, eot)
    ELSE read_all_sectors_bytestream(t, n, eot)

\* The sector ids get_next_id walks over, in track order: sector_ids of a
\* BitStream track, the records of a ByteStream track seen from chs.
NextIdList(t, chs) ==
    IF t.kind = "BitStream" THEN t.sector_ids
    ELSE [i \in 1..Len(t.sectors) |->
            DiskChsn(chs.c, chs.h, t.sectors[i].sector_id, t.sectors[i].n)]

\* get_next_id, the loop over the ids from k on.
RECURSIVE NextIdFrom(_, _, _, _)
NextIdFrom(ids, k, chs, sector_matched) ==
    IF k > Len(ids)
    THEN IF sector_matched THEN Some(ids[1]) ELSE None
    ELSE IF sector_matched THEN Some(ids[k])
    ELSE NextIdFrom(ids, k + 1, chs, ids[k].s = chs.s)

\* TrackData::get_next_id
get_next_id(t, chs) ==
    IF Len(NextIdList(t, chs)) = 0 THEN None
    ELSE NextIdFrom(NextIdList(t, chs), 1, chs, FALSE)

\* System34Parser::format_track_as_bytes: gap4a, IAM, gap1, then for each
\* CHSN sync, IDAM, CHSN, CRC, gap2, sync, DAM, the fill bytes, CRC and gap3,
\* then gap4b up to the capacity; None when the sectors exceed the capacity.
RECURSIVE FormatSectors(_, _, _, _)
FormatSectors(format_buffer, k, fill_byte, gap3) ==
    IF k > Len(format_buffer) THEN <<>>
    ELSE LET id == <<format_buffer[k].c, format_buffer[k].h,
                     format_buffer[k].s, format_buffer[k].n>>
             payload == [i \in 1..NToBytes(format_buffer[k].n) |-> fill_byte]
         IN  <<0, SyncA1, SyncA1, SyncA1, 254>> \o id
             \o ToBeBytes(crc_ccitt(IDAM_MARKER_BYTES \o id, None)) \o <<78>>
             \o <<0, SyncA1, SyncA1, SyncA1, 251>> \o payload
             \o ToBeBytes(crc_ccitt(DAM_MARKER_BYTES \o payload, None))
             \o [i \in 1..gap3 |-> 78]
             \o FormatSectors(format_buffer, k + 1, fill_byte, gap3)

FormatTrackAsBytes(capacity, format_buffer, fill_byte, gap3) ==
    LET body == <<78, SyncC2, SyncC2, SyncC2, 252, 78>>
                \o FormatSectors(format_buffer, 1, fill_byte, gap3)
    IN  IF Len(body) > capacity THEN None
        ELSE Some(body \o [i \in 1..(capacity - Len(body)) |-> 78])

\* TrackData::format, the track rewritten from the cells formatted.
FormatRescan(t, cells) ==
    Bind([t.data EXCEPT !.sym = cells],
         LAMBDA stream :
           Bind(ScanTrackMetadata(stream, ScanTrackMarkers(stream)),
                LAMBDA metadata :
                  [t EXCEPT !.data = stream, !.metadata = metadata,
                            !.sector_ids = GetSectorIds(metadata)]))

\* format that rewrites the stream and keeps the metadata and the sector ids
\* it had.
FormatNoRescan(t, standard, format_buffer, fill_byte, gap3) ==
    IF t.kind = "ByteStream" THEN [status |-> "UnsupportedFormat", track |-> t]
    ELSE IF t.data.codec # "Mfm"
    THEN [status |-> "UnsupportedFormat", track |-> t]
    ELSE Bind(FormatTrackAsBytes(Len(t.data.sym), format_buffer, fill_byte,
                                 gap3),
              LAMBDA fr : IF fr = None
                          THEN [status |-> "ParameterError", track |-> t]
                          ELSE [status |-> "Ok",
                                track |-> [t EXCEPT !.data.sym = Unwrap(fr)]])

\* format without the test of the stream's encoding: a BitStream track is
\* formatted whatever its stream is.
FormatAnyStream(t, standard, format_buffer, fill_byte, gap3) ==
    IF t.kind = "ByteStream" THEN [status |-> "UnsupportedFormat", track |-> t]
    ELSE Bind(FormatTrackAsBytes(Len(t.data.sym), format_buffer, fill_byte,
                                 gap3),
              LAMBDA fr : IF fr = None
                          THEN [status |-> "ParameterError", track |-> t]
                          ELSE [status |-> "Ok",
                                track |-> FormatRescan(t, Unwrap(fr))])

\* TrackData::format: the status and the track the call leaves behind.
format(t, standard, format_buffer, fill_byte, gap3) ==
    IF t.kind = "ByteStream" THEN [status |-> "UnsupportedFormat", track |-> t]
    ELSE IF t.data.codec # "Mfm"
    THEN [status |-> "UnsupportedFormat", track |-> t]
    ELSE Bind(FormatTrackAsBytes(Len(t.data.sym), format_buffer, fill_byte,
                                 gap3),
              LAMBDA fr : IF fr = None
                          THEN [status |-> "ParameterError", track |-> t]
                          ELSE [status |-> "Ok",
                                track |-> FormatRescan(t, Unwrap(fr))])

\* TrackData::get_hash: the digest stands for the bytes it is taken over.
get_hash(t) ==
    IF t.kind = "BitStream" THEN <<"sha1", t.data.sym>>
    ELSE <<"sha1", t.data>>

(***************************************************************************)
(* DiskImage (diskimage.rs): the construction of one track                 *)
(***************************************************************************)
\* add_track_bitstream: the track pushed for the raw cells data.  The weak
\* mask of the new stream is BitVec::from_elem(data.len(), false).
BitStreamTrack(data_encoding, ch, stream, metadata) ==
    [kind |-> "BitStream", encoding |-> data_encoding,
     cylinder |-> ch.c, head |-> ch.h, data |-> stream,
     metadata |-> metadata, sector_ids |-> GetSectorIds(metadata)]

NewBitStreamTrack(data_encoding, ch, data, weak) ==
    Bind([codec |-> IF data_encoding = "Mfm" THEN "Mfm" ELSE "Raw",
          sym |-> data, weak |-> {}],
         LAMBDA stream :
           Bind(ScanTrackMarkers(stream),
                LAMBDA markers :
                  Bind(ScanTrackMetadata(stream, markers),
                       LAMBDA metadata :
                         BitStreamTrack(data_encoding, ch, stream, metadata))))

\* add_track_bytestream: the empty track pushed.
NewByteStreamTrack(data_encoding, ch) ==
    [kind |-> "ByteStream", encoding |-> data_encoding,
     cylinder |-> ch.c, head |-> ch.h,
     sectors |-> <<>>, data |-> <<>>, weak_mask |-> <<>>]

\* master_sector that extends the weak mask only when the descriptor has one.
MasterSectorNoDefaultMask(t, chs, sd) ==
    IF t.kind = "ByteStream"
    THEN [status |-> "Ok",
          track |-> [t EXCEPT
            !.sectors = Append(@,
               [sector_id |-> sd.id,
                cylinder_id |-> IF sd.cylinder_id = None THEN chs.c
                                ELSE Unwrap(sd.cylinder_id),
                head_id |-> IF sd.head_id = None THEN chs.h
                            ELSE Unwrap(sd.head_id),
                n |-> sd.n,
                t_idx |-> Len(t.data),
                len |-> Len(sd.data),
                address_crc_error |-> sd.address_crc_error,
                data_crc_error |-> sd.data_crc_error,
                deleted_mark |-> sd.deleted_mark]),
            !.data = @ \o sd.data,
            !.weak_mask = @ \o (IF sd.weak = None THEN <<>>
                                ELSE Unwrap(sd.weak))]]
    ELSE [status |-> "UnsupportedFormat", track |-> t]

\* master_sector on the track found for chs: the sector record pushed and
\* the buffers extended; UnsupportedFormat on a BitStream track.
MasterSectorTrack(t, chs, sd) ==
    IF t.kind = "ByteStream"
    THEN [status |-> "Ok",
          track |-> [t EXCEPT
            !.sectors = Append(@,
               [sector_id |-> sd.id,
                cylinder_id |-> IF sd.cylinder_id = None THEN chs.c
                                ELSE Unwrap(sd.cylinder_id),
                head_id |-> IF sd.head_id = None THEN chs.h
                            ELSE Unwrap(sd.head_id),
                n |-> sd.n,
                t_idx |-> Len(t.data),
                len |-> Len(sd.data),
                address_crc_error |-> sd.address_crc_error,
                data_crc_error |-> sd.data_crc_error,
                deleted_mark |-> sd.deleted_mark]),
            !.data = @ \o sd.data,
            !.weak_mask = @ \o (IF sd.weak = None
                                THEN [i \in 1..Len(sd.data) |-> 0]
                                ELSE Unwrap(sd.weak))]]
    ELSE [status |-> "UnsupportedFormat", track |-> t]

(***************************************************************************)
(* DiskImage (diskimage.rs): the disk                                      *)
(*                                                                         *)
(* track_pool is the sequence of tracks; track_map is the pair of index    *)
(* sequences, head 0 first.  The indices stored and the cylinder and head  *)
(* numbers count from 0 as in the source; the sequences count from 1.  A   *)
(* call that panics (a failed assert!, an index out of bounds) returns the *)
(* status "Panic".                                                         *)
(***************************************************************************)
\* The sector size of a standard PC floppy, in bytes.
DEFAULT_SECTOR_SIZE == 512

\* FloppyFormat::get_chs
get_chs(disk_format) ==
    CASE disk_format = "PcFloppy160" -> DiskChs(40, 1, 8)
      [] disk_format = "PcFloppy180" -> DiskChs(40, 1, 9)
      [] disk_format = "PcFloppy320" -> DiskChs(40, 2, 8)
      [] disk_format = "PcFloppy360" -> DiskChs(40, 2, 9)
      [] disk_format = "PcFloppy720" -> DiskChs(80, 2, 9)
      [] disk_format = "PcFloppy1200" -> DiskChs(80, 2, 15)
      [] disk_format = "PcFloppy1440" -> DiskChs(80, 2, 18)
      [] disk_format = "PcFloppy2880" -> DiskChs(80, 2, 36)
      [] OTHER -> DiskChs(0, 0, 0)

\* FloppyFormat::get_ch: DiskCh::from(DiskChs) drops the sector.
get_ch(disk_format) ==
    [c |-> get_chs(disk_format).c, h |-> get_chs(disk_format).h]

\* FloppyFormat::get_data_rate
get_data_rate(disk_format) == "Rate500Kbps"

\* FloppyFormat::get_rpm
get_rpm(disk_format) ==
    IF disk_format \in {"Unknown", "PcFloppy1200"} THEN "Rpm360" ELSE "Rpm300"

\* FloppyFormat::size
size(disk_format) ==
    CASE disk_format = "PcFloppy160" -> 163840
      [] disk_format = "PcFloppy180" -> 184320
      [] disk_format = "PcFloppy320" -> 327680
      [] disk_format = "PcFloppy360" -> 368640
      [] disk_format = "PcFloppy720" -> 737280
      [] disk_format = "PcFloppy1200" -> 1228800
      [] disk_format = "PcFloppy1440" -> 1474560
      [] disk_format = "PcFloppy2880" -> 2949120
      [] OTHER -> 0

\* From<usize> that takes a size up to a sector above that of a format for
\* the format.
FromSizeWithinSector(sz) ==
    LET near == {f \in {"PcFloppy160", "PcFloppy180", "PcFloppy320",
                        "PcFloppy360", "PcFloppy720", "PcFloppy1200",
                        "PcFloppy1440", "PcFloppy2880"} :
                    size(f) <= sz /\ sz < size(f) + DEFAULT_SECTOR_SIZE}
    IN  IF near = {} THEN "Unknown" ELSE CHOOSE f \in near : TRUE

\* impl From<usize> for FloppyFormat
from_size(sz) ==
    CASE sz = 163840 -> "PcFloppy160"
      [] sz = 184320 -> "PcFloppy180"
      [] sz = 327680 -> "PcFloppy320"
      [] sz = 368640 -> "PcFloppy360"
      [] sz = 737280 -> "PcFloppy720"
      [] sz = 1228800 -> "PcFloppy1200"
      [] sz = 1474560 -> "PcFloppy1440"
      [] sz = 2949120 -> "PcFloppy2880"
      [] OTHER -> "Unknown"

\* FloppyFormat::get_image_format
get_image_format(disk_format) ==
    [geometry |-> get_ch(disk_format),
     default_sector_size |-> DEFAULT_SECTOR_SIZE,
     data_encoding |-> "Mfm",
     data_rate |-> "Rate500Kbps",
     rpm |-> Some("Rpm300")]

\* DiskImage::new
new(disk_format) ==
    [disk_format |-> disk_format,
     image_format |-> get_image_format(disk_format),
     consistency |->
        [weak |-> FALSE, deleted |-> FALSE,
         consistent_sector_size |-> Some(DEFAULT_SECTOR_SIZE),
         consistent_track_length |-> Some(get_chs(disk_format).s)],
     track_pool |-> <<>>,
     track_map |-> <<(<<>>), (<<>>)>>]

\* DiskImage::geometry
geometry(d) == d.image_format.geometry

\* The result of a call that may change the disk.
DiskResult(status, d) == [status |-> status, disk |-> d]

\* TrackData::get_sector_ct.  is_sector holds of the data elements.
get_sector_ct(t) ==
    IF t.kind = "ByteStream" THEN Len(t.sectors)
    ELSE Len(SelectSeq(t.metadata, LAMBDA item : item.elem = "Data"))

\* DiskTrack::get_sector_count
get_sector_count(t) == get_sector_ct(t)

\* TrackData::has_sector_id
has_sector_id(t, id) ==
    IF t.kind = "ByteStream"
    THEN \E k \in 1..Len(t.sectors) : t.sectors[k].sector_id = id
    ELSE \E k \in 1..Len(t.metadata) :
            /\ t.metadata[k].elem = "Idam"
            /\ t.metadata[k].chsn # None
            /\ Unwrap(t.metadata[k].chsn).s = id

\* TrackData::get_sector_list
get_sector_list(t) ==
    IF t.kind = "ByteStream"
    THEN [i \in 1..Len(t.sectors) |->
            [chsn |-> DiskChsn(t.sectors[i].cylinder_id, t.sectors[i].head_id,
                               t.sectors[i].sector_id, t.sectors[i].n),
             address_crc_valid |-> ~t.sectors[i].address_crc_error,
             data_crc_valid |-> ~t.sectors[i].data_crc_error,
             deleted_mark |-> t.sectors[i].deleted_mark]]
    ELSE Bind(SelectSeq(t.metadata,
                        LAMBDA item : item.elem = "Data" /\ item.chsn # None),
              LAMBDA items :
                [i \in 1..Len(items) |->
                   [chsn |-> Unwrap(items[i].chsn),
                    address_crc_valid |-> items[i].address_crc,
                    data_crc_valid |-> items[i].data_crc,
                    deleted_mark |-> items[i].deleted]])

\* TrackData::has_weak_bits
has_weak_bits(t) ==
    IF t.kind = "BitStream"
    THEN IF t.data.codec = "Mfm" THEN MfmHasWeakBits(t.data) ELSE FALSE
    ELSE t.weak_mask # <<>> /\ \E i \in 1..Len(t.weak_mask) : t.weak_mask[i] # 0

\* DiskImage::add_track_bytestream
add_track_bytestream(d, data_encoding, ch) ==
    IF ~(ch.h < 2) THEN DiskResult("Panic", d)
    ELSE DiskResult("Ok",
            [d EXCEPT !.track_pool =
                          Append(@, NewByteStreamTrack(data_encoding, ch)),
                      !.track_map[ch.h + 1] =
                          Append(@, (Len(d.track_pool) + 1) - 1)])

\* data.len() of the raw track bytes behind the cells data: eight cells a byte.
RawLen(data) == (Len(data) * MFM_BYTE_LEN) \div 8

\* add_track_bitstream that takes a weak mask of any length.
AddTrackBitStreamAnyWeak(d, data_encoding, ch, data, weak) ==
    IF ch.h >= 2 THEN DiskResult("SeekError", d)
    ELSE DiskResult("Ok",
            [d EXCEPT !.track_pool =
                          Append(@, NewBitStreamTrack(data_encoding, ch, data,
                                                      weak)),
                      !.track_map[ch.h + 1] =
                          Append(@, (Len(d.track_pool) + 1) - 1)])

\* DiskImage::add_track_bitstream
add_track_bitstream(d, data_encoding, ch, data, weak) ==
    IF ch.h >= 2 THEN DiskResult("SeekError", d)
    ELSE IF weak # None /\ RawLen(data) # Len(Unwrap(weak))
    THEN DiskResult("ParameterError", d)
    ELSE DiskResult("Ok",
            [d EXCEPT !.track_pool =
                          Append(@, NewBitStreamTrack(data_encoding, ch, data,
                                                      weak)),
                      !.track_map[ch.h + 1] =
                          Append(@, (Len(d.track_pool) + 1) - 1)])

\* self.track_map[h][c] and self.track_pool[ti] are within bounds.
InTrackMap(d, h, c) == h < Len(d.track_map) /\ c < Len(d.track_map[h + 1])
InTrackPool(d, ti) == ti < Len(d.track_pool)

\* DiskImage::master_sector
master_sector(d, chs, sd) ==
    IF chs.h > 1 THEN DiskResult("SeekError", d)
    ELSE IF Len(d.track_map[chs.h + 1]) < chs.c
    THEN DiskResult("SeekError", d)
    ELSE IF ~InTrackMap(d, chs.h, chs.c) THEN DiskResult("Panic", d)
    ELSE Bind(d.track_map[chs.h + 1][chs.c + 1],
              LAMBDA ti :
                IF ~InTrackPool(d, ti) THEN DiskResult("Panic", d)
                ELSE Bind(MasterSectorTrack(d.track_pool[ti + 1], chs, sd),
                          LAMBDA r :
                            DiskResult(r.status,
                               [d EXCEPT !.track_pool[ti + 1] = r.track])))

\* DiskChs::get_next_sector: the sector after self on a disk of geometry
\* geom.  Below the last sector of the track the sector advances by one;
\* at_end is what becomes of a CHS at or past it.
EndOfTrack == {"advance", "restart", "next_head", "next_cylinder", "first"}

get_next_sector(self, geom, at_end) ==
    IF self.s < geom.s \/ at_end = "advance" THEN [self EXCEPT !.s = @ + 1]
    ELSE CASE at_end = "restart" -> DiskChs(self.c, self.h, 1)
           [] at_end = "next_head" -> DiskChs(self.c, self.h + 1, 1)
           [] at_end = "next_cylinder" -> DiskChs(self.c + 1, 0, 1)
           [] at_end = "first" -> DiskChs(0, 0, 1)

\* DiskImage::next_sector_on_track: Some or None; the status "Panic" when
\* the track map or the pool is indexed out of bounds.
next_sector_on_track(d, chs, at_end) ==
    IF ~InTrackMap(d, chs.h, chs.c) THEN [status |-> "Panic", value |-> None]
    ELSE Bind(d.track_map[chs.h + 1][chs.c + 1],
              LAMBDA ti :
                IF ~InTrackPool(d, ti) THEN [status |-> "Panic", value |-> None]
                ELSE Bind(DiskChs(geometry(d).c, geometry(d).h,
                                  get_sector_count(d.track_pool[ti + 1]) % 256),
                          LAMBDA geom_chs :
                            Bind(get_next_sector(geom_chs, geom_chs, at_end),
                                 LAMBDA next_sector :
                                   [status |-> "Ok",
                                    value |-> IF next_sector.c = chs.c
                                              THEN Some(next_sector)
                                              ELSE None])))

\* DiskImage::read_sector with the cylinder checked against the length of
\* the map as master_sector checks it.
DiskReadSectorLoose(d, chs, n, scope, debug) ==
    IF chs.h > 1 THEN ReadErr("SeekError")
    ELSE IF Len(d.track_map[chs.h + 1]) < chs.c THEN ReadErr("SeekError")
    ELSE IF ~InTrackMap(d, chs.h, chs.c) THEN ReadErr("Panic")
    ELSE Bind(d.track_map[chs.h + 1][chs.c + 1],
              LAMBDA ti :
                IF ~InTrackPool(d, ti) THEN ReadErr("Panic")
                ELSE read_sector(d.track_pool[ti + 1], chs, n, scope, debug))

\* DiskImage::read_sector.  The track's read_sector is called with the n of
\* the caller.
disk_read_sector(d, chs, n, scope, debug) ==
    IF chs.h > 1 THEN ReadErr("SeekError")
    ELSE IF chs.c >= Len(d.track_map[chs.h + 1]) THEN ReadErr("SeekError")
    ELSE IF ~InTrackMap(d, chs.h, chs.c) THEN ReadErr("Panic")
    ELSE Bind(d.track_map[chs.h + 1][chs.c + 1],
              LAMBDA ti :
                IF ~InTrackPool(d, ti) THEN ReadErr("Panic")
                ELSE read_sector(d.track_pool[ti + 1], chs, n, scope, debug))

\* remove_empty_tracks, empty_tracks[head_idx]: the positions (from 1) in
\* the map of a head of the tracks that hold no sector.
EmptyTrackIdx(d, head) ==
    {i \in 1..Len(head) : get_sector_count(d.track_pool[head[i] + 1]) = 0}

\* Vec::remove: the sequence without its element at position i.
RemoveAt(s, i) == SubSeq(s, 1, i - 1) \o SubSeq(s, i + 1, Len(s))

\* remove_empty_tracks, the inner loop: the positions idxs are removed from
\* the map of a head in descending order.
RECURSIVE RemoveDescending(_, _)
RemoveDescending(head, idxs) ==
    IF idxs = {} THEN head
    ELSE LET track_idx == CHOOSE i \in idxs : \A j \in idxs : j <= i
         IN  RemoveDescending(RemoveAt(head, track_idx), idxs \ {track_idx})

\* The inner loop without the descending sort: the positions are removed in
\* the order they were found in, lowest first.
RECURSIVE RemoveAscending(_, _)
RemoveAscending(head, idxs) ==
    IF idxs = {} THEN head
    ELSE LET track_idx == CHOOSE i \in idxs : \A j \in idxs : i <= j
         IN  RemoveAscending(RemoveAt(head, track_idx), idxs \ {track_idx})

WithoutEmptyTracksUnsorted(d, head) ==
    RemoveAscending(head, EmptyTrackIdx(d, head))

\* The map of a head without the entries of the tracks that hold no sector.
WithoutEmptyTracks(d, head) ==
    RemoveDescending(head, EmptyTrackIdx(d, head))

\* remove_empty_tracks that drops the empty tracks from the pool as well,
\* the indices of the map left as they are.
RemoveEmptyTracksFromPool(d) ==
    [d EXCEPT !.track_map =
                 [head_idx \in 1..Len(d.track_map) |->
                     WithoutEmptyTracks(d, d.track_map[head_idx])],
              !.track_pool =
                 SelectSeq(@, LAMBDA t : get_sector_count(t) # 0)]

\* DiskImage::remove_empty_tracks
remove_empty_tracks(d) ==
    [d EXCEPT !.track_map =
        [head_idx \in 1..Len(d.track_map) |->
            WithoutEmptyTracks(d, d.track_map[head_idx])]]

\* normalize: the number of map entries, and of those of empty tracks.
TrackCt(d) == Len(d.track_map[1]) + Len(d.track_map[2])
EmptyTrackCt(d) ==
    Cardinality(EmptyTrackIdx(d, d.track_map[1]))
    + Cardinality(EmptyTrackIdx(d, d.track_map[2]))

\* DiskImage::normalize
normalize(d) ==
    IF EmptyTrackCt(d) >= TrackCt(d) \div 2 THEN remove_empty_tracks(d)
    ELSE d

(***************************************************************************)
(* Inputs: raw track images and sector descriptors                         *)
(***************************************************************************)
\* The physical position of the track under test.
TrackCh == [c |-> 0, h |-> 0]

\* The sector ids on the track under test, each with its size code.
SectorIds == {1, 2}
SizeCode(s) == (s - 1) % 2

\* Up to MaxSlots sectors on a raw track image, up to MaxSectors records on
\* a ByteStream track.
MaxSlots == 3
MaxSectors == 2

Fill(k, b) == [i \in 1..k |-> b]

\* A sector slot of a raw image: the header id, whether the two CRCs are
\* written good, and the data mark ("none" leaves the IDAM an orphan).
Slot(c, h, s, n, addr_ok, dam, data_ok, fill) ==
    [c |-> c, h |-> h, s |-> s, n |-> n, addr_ok |-> addr_ok,
     dam |-> dam, data_ok |-> data_ok, fill |-> fill]

\* The stored CRC bytes: the right ones, or one off.
CrcField(bytes, good) ==
    ToBeBytes(IF good THEN crc_ccitt(bytes, None)
              ELSE (crc_ccitt(bytes, None) + 1) % 65536)

\* The cells of one slot: sync, IDAM, CHRN, CRC, gap2 and, unless the IDAM
\* is an orphan, sync, DAM or DDAM, payload, CRC, gap3.
SlotCells(sl) ==
    LET id == <<sl.c, sl.h, sl.s, sl.n>>
        mark == IF sl.dam = "ddam" THEN DDAM_MARKER_BYTES ELSE DAM_MARKER_BYTES
        payload == Fill(NToBytes(sl.n), sl.fill)
    IN  <<0, SyncA1, SyncA1, SyncA1, 254>> \o id
        \o CrcField(IDAM_MARKER_BYTES \o id, sl.addr_ok) \o <<78>>
        \o (IF sl.dam = "none" THEN <<>>
            ELSE <<0, SyncA1, SyncA1, SyncA1, mark[4]>> \o payload
                 \o CrcField(mark \o payload, sl.data_ok) \o <<78>>)

RECURSIVE SlotsCells(_, _)
SlotsCells(slots, k) ==
    IF k > Len(slots) THEN <<>>
    ELSE SlotCells(slots[k]) \o SlotsCells(slots, k + 1)

\* A raw image: gap4a, IAM, gap1, the slots, gap4b.
ImageCells(slots) ==
    <<78, SyncC2, SyncC2, SyncC2, 252, 78>> \o SlotsCells(slots, 1) \o <<78>>

\* The slot of sector s at position p of a layout: a well-formed sector
\* whose payload bytes name the position, changed by the deviation dev.
Deviations == {"badaddr", "baddata", "wrongcyl", "wronghead", "deleted"}

LayoutSlot(s, p, dev) ==
    Slot(IF dev = "wrongcyl" THEN TrackCh.c + 1 ELSE TrackCh.c,
         IF dev = "wronghead" THEN 1 - TrackCh.h ELSE TrackCh.h,
         s, SizeCode(s), dev # "badaddr",
         IF dev = "deleted" THEN "ddam" ELSE "dam",
         dev # "baddata", 228 + p)

\* An IDAM with no data field.
OrphanSlot(s) ==
    Slot(TrackCh.c, TrackCh.h, s, SizeCode(s), TRUE, "none", TRUE, 0)

\* A layout: the sector ids in track order, with the first sector changed
\* by the deviation dev ("none" for none) and, when orphan is a sector id,
\* an orphan IDAM of that id before the first sector.
Layouts ==
    {[ids |-> ids, dev |-> d[1], orphan |-> d[2]] :
        ids \in UNION {[1..k -> SectorIds] : k \in 1..MaxSlots},
        d \in ({"none"} \X {0})
              \cup (Deviations \X {0})
              \cup ({"none"} \X SectorIds)}

LayoutSlots(l) ==
    (IF l.orphan # 0 THEN <<OrphanSlot(l.orphan)>> ELSE <<>>)
    \o [p \in 1..Len(l.ids) |->
          LayoutSlot(l.ids[p], p, IF p = 1 THEN l.dev ELSE "none")]

BitStreamImages == {ImageCells(LayoutSlots(l)) : l \in Layouts}

\* The sector descriptors handed to master_sector.
SectorDescriptor(id, cylinder_id, head_id, n, data, data_crc_error) ==
    [id |-> id, cylinder_id |-> cylinder_id, head_id |-> head_id, n |-> n,
     data |-> data, weak |-> None, address_crc_error |-> FALSE,
     data_crc_error |-> data_crc_error, deleted_mark |-> FALSE]

\* For the p-th record of a track: each sector id as it should be, and
\* sector 1 with a data CRC error, a foreign cylinder id or a foreign head id.
SectorDescriptors(p) ==
    {SectorDescriptor(s, None, None, SizeCode(s),
                      Fill(NToBytes(SizeCode(s)), 228 + p), FALSE) :
        s \in SectorIds}
    \cup {SectorDescriptor(1, None, None, 0, Fill(NToBytes(0), 228 + p), TRUE),
          SectorDescriptor(1, Some(TrackCh.c + 1), None, 0,
                           Fill(NToBytes(0), 228 + p), FALSE),
          SectorDescriptor(1, None, Some(1 - TrackCh.h), 0,
                           Fill(NToBytes(0), 228 + p), FALSE)}

\* The arguments of read_sector and write_sector.
RequestChs == {DiskChs(TrackCh.c, TrackCh.h, s) : s \in SectorIds}
RequestN == {None} \cup {Some(SizeCode(s)) : s \in SectorIds}
Scopes == {"DataBlock", "DataOnly"}
WriteBuffers == {Fill(NToBytes(SizeCode(s)), 90) : s \in SectorIds}

(***************************************************************************)
(* The state machine: the track under test, the call that has returned and *)
(* is with the caller (res), and the write_sector(chs, None, write_data)    *)
(* that wrote its data, if that was the call before this one (last_write). *)
(* The disk (disk, dres) is at rest here; it is exercised under DiskSpec.  *)
(***************************************************************************)
NoCall == [op |-> "none"]

Init ==
    /\ track \in {NewBitStreamTrack("Mfm", TrackCh, img, None) :
                     img \in BitStreamImages}
                 \cup {NewBitStreamTrack("Fm", TrackCh, img, None) :
                     img \in {ImageCells(<<LayoutSlot(1, 1, "none")>>)}}
                 \cup {NewByteStreamTrack("Mfm", TrackCh)}
    /\ res = NoCall
    /\ last_write = None
    /\ disk = new("PcFloppy360")
    /\ dres = NoCall

\* DiskImage::master_sector on the track under test.
MasterSector ==
    /\ res = NoCall
    /\ UNCHANGED <<disk, dres>>
    /\ IF track.kind = "ByteStream" THEN Len(track.sectors) < MaxSectors
                                     ELSE TRUE
    /\ \E sd \in SectorDescriptors(IF track.kind = "ByteStream"
                                   THEN Len(track.sectors) + 1 ELSE 1) :
       \E chs \in {DiskChs(TrackCh.c, TrackCh.h, sd.id)} :
       \E r \in {MasterSectorTrack(track, chs, sd)} :
          /\ track' = r.track
          /\ res' = [op |-> "master_sector", chs |-> chs, sd |-> sd,
                     status |-> r.status]
          /\ last_write' = None

\* TrackData::read_sector
ReadSector ==
    /\ res = NoCall
    /\ UNCHANGED <<disk, dres>>
    /\ \E chs \in RequestChs, n \in RequestN, scope \in Scopes,
          debug \in BOOLEAN :
       \E r \in {read_sector(track, chs, n, scope, debug)} :
          /\ res' = [op |-> "read_sector", chs |-> chs, n |-> n,
                     scope |-> scope, debug |-> debug,
                     bit_index |-> get_sector_bit_index(track, chs, n),
                     result |-> r]
          /\ UNCHANGED <<track, last_write>>

\* TrackData::write_sector
WriteSector ==
    /\ res = NoCall
    /\ UNCHANGED <<disk, dres>>
    /\ \E chs \in RequestChs, n \in RequestN, buf \in WriteBuffers,
          debug \in BOOLEAN :
       \E r \in {write_sector(track, chs, n, buf, "DataOnly", FALSE, debug)} :
          /\ res' = [op |-> "write_sector", chs |-> chs, n |-> n,
                     write_data |-> buf, debug |-> debug,
                     bit_index |-> get_sector_bit_index(track, chs, n),
                     hash_before |-> get_hash(track),
                     result |-> [r EXCEPT !.track = get_hash(r.track)]]
          /\ track' = r.track
          /\ last_write' = IF r.status = "Ok" /\ ~r.address_crc_error
                                /\ n = None
                             THEN Some([chs |-> chs, write_data |-> buf])
                             ELSE None

\* TrackData::read_all_sectors
ReadAllSectors ==
    /\ res = NoCall
    /\ UNCHANGED <<disk, dres>>
    /\ \E n \in {SizeCode(s) : s \in SectorIds}, eot \in SectorIds :
       \E r \in {read_all_sectors(track, n, eot)} :
          /\ res' = [op |-> "read_all_sectors", n |-> n, eot |-> eot,
                     result |-> r]
          /\ UNCHANGED <<track, last_write>>

\* The positions in the list get_next_id walks over at which sector chs.s
\* stands; 0 alone when it stands nowhere.
PositionsOf(chs) ==
    LET at == {i \in 1..Len(NextIdList(track, chs)) :
                  NextIdList(track, chs)[i].s = chs.s}
    IN  IF at = {} THEN {0} ELSE at

\* TrackData::get_next_id, asked by a caller that stands at entry from of
\* the list.
GetNextId ==
    /\ res = NoCall
    /\ UNCHANGED <<disk, dres>>
    /\ \E chs \in RequestChs :
       \E from \in PositionsOf(chs) :
          res' = [op |-> "get_next_id", chs |-> chs, from |-> from,
                  result |-> get_next_id(track, chs)]
    /\ UNCHANGED <<track, last_write>>

\* TrackData::get_next_id with the id the last get_next_id returned: the
\* caller moves one entry on, to the first after the last.
GetNextIdAgain ==
    /\ res # NoCall
    /\ UNCHANGED <<disk, dres>>
    /\ res.op = "get_next_id"
    /\ res.from # 0
    /\ res.result # None
    /\ \E chs \in {ChsFromChsn(Unwrap(res.result))} :
          res' = [op |-> "get_next_id", chs |-> chs,
                  from |-> (res.from % Len(NextIdList(track, chs))) + 1,
                  result |-> get_next_id(track, chs)]
    /\ UNCHANGED <<track, last_write>>

\* The format buffers handed to format: sector 1 alone, and sectors 1 and 2.
FormatBuffers ==
    {[i \in 1..k |-> DiskChsn(TrackCh.c, TrackCh.h, i, SizeCode(i))] :
        k \in 1..Cardinality(SectorIds)}

\* The fill byte handed to format.
FormatFill == 246

\* TrackData::format
Format ==
    /\ res = NoCall
    /\ UNCHANGED <<disk, dres>>
    /\ \E format_buffer \in FormatBuffers :
       \E r \in {format(track, "Ibm", format_buffer, FormatFill, 1)} :
          /\ track' = r.track
          /\ res' = [op |-> "format", format_buffer |-> format_buffer,
                     hash_before |-> get_hash(track), status |-> r.status]
          /\ last_write' = None

\* The caller takes the result; it remembers the write it has just made.
Return ==
    /\ res # NoCall
    /\ UNCHANGED <<disk, dres>>
    /\ res' = NoCall
    /\ last_write' = IF res.op = "write_sector" THEN last_write ELSE None
    /\ UNCHANGED track

Next ==
    \/ MasterSector
    \/ ReadSector
    \/ WriteSector
    \/ ReadAllSectors
    \/ GetNextId
    \/ GetNextIdAgain
    \/ Format
    \/ Return

Spec == Init /\ [][Next]_vars

(***************************************************************************)
(* The state machine of a ByteStream track whose sectors may be under-     *)
(* dumped (fewer bytes stored than the size code tells) or carry a weak    *)
(* mask.                                                                   *)
(***************************************************************************)
\* For the p-th record of a track: each sector id with half the bytes of
\* its size code, and with all of them and a weak mask as long.
ShortSectorDescriptors(p) ==
    {SectorDescriptor(s, None, None, SizeCode(s),
                      Fill(NToBytes(SizeCode(s)) \div 2, 228 + p), FALSE) :
        s \in SectorIds}
    \cup {[SectorDescriptor(s, None, None, SizeCode(s),
                            Fill(NToBytes(SizeCode(s)), 228 + p), FALSE)
             EXCEPT !.weak = Some(Fill(NToBytes(SizeCode(s)), 1))] :
            s \in SectorIds}

ByteStreamInit ==
    /\ track = NewByteStreamTrack("Mfm", TrackCh)
    /\ res = NoCall
    /\ last_write = None
    /\ disk = new("PcFloppy360")
    /\ dres = NoCall

\* DiskImage::master_sector with an under-dumped sector or a weak mask.
MasterSectorShort ==
    /\ res = NoCall
    /\ UNCHANGED <<disk, dres>>
    /\ track.kind = "ByteStream"
    /\ Len(track.sectors) < MaxSectors
    /\ \E sd \in ShortSectorDescriptors(Len(track.sectors) + 1) :
       \E chs \in {DiskChs(TrackCh.c, TrackCh.h, sd.id)} :
       \E r \in {MasterSectorTrack(track, chs, sd)} :
          /\ track' = r.track
          /\ res' = [op |-> "master_sector", chs |-> chs, sd |-> sd,
                     status |-> r.status]
          /\ last_write' = None

ByteStreamNext ==
    \/ MasterSector
    \/ MasterSectorShort
    \/ WriteSector
    \/ Return

ByteStreamSpec == ByteStreamInit /\ [][ByteStreamNext]_vars

(***************************************************************************)
(* The state machine of a track that is read as a whole and formatted:     *)
(* the tracks of Init, the calls that go by the metadata of the track and  *)
(* the one that rewrites it.                                               *)
(***************************************************************************)
ReadTrackNext ==
    \/ ReadAllSectors
    \/ Format
    \/ Return

ReadTrackSpec == Init /\ [][ReadTrackNext]_vars

(***************************************************************************)
(* The state machine of the disk: the disk image and the DiskImage call    *)
(* that has returned and is with the caller (dres).  A call that panicked  *)
(* ends the run.                                                           *)
(***************************************************************************)
\* At most MaxTracks tracks in the pool; at most MaxSectors sectors mastered
\* onto the disk.
MaxTracks == 2

DiskFormats == {"PcFloppy360"}

\* The cylinders and heads asked for: head 2 is none of a disk's.
Cylinders == {0, 1}
Heads == {0, 1, 2}
DiskChSet == {[c |-> c, h |-> h] : c \in Cylinders, h \in Heads}

\* The raw image handed to add_track_bitstream for the track at ch: it
\* holds sector 1.
DiskTrackImages(ch) ==
    {ImageCells(<<Slot(ch.c, ch.h, 1, 0, TRUE, "dam", TRUE, 229)>>)}

\* The weak masks handed along with data: none, one as long as the data
\* without a set bit and one with a set bit, and one a byte short.
WeakMasks(data) ==
    {None, Some(Fill(RawLen(data), 0)),
     Some([Fill(RawLen(data), 0) EXCEPT ![1] = 1]),
     Some(Fill(RawLen(data) - 1, 0))}

\* The mask has a set bit.
HasSetBit(weak) == \E i \in 1..Len(weak) : weak[i] # 0

\* The sector descriptors mastered onto the disk: sector 1 of the default
\* size, and sector 2 of 128 bytes, deleted and with weak bits.
DiskSectorDescriptor(id) ==
    IF id = 1
    THEN SectorDescriptor(1, None, None, 2, Fill(NToBytes(2), 229), FALSE)
    ELSE [SectorDescriptor(id, None, None, 0, Fill(NToBytes(0), 230), FALSE)
            EXCEPT !.deleted_mark = TRUE, !.weak = Some(Fill(NToBytes(0), 1))]

\* A track is mastered sector after sector: the id of the sector that comes
\* next at ch, sector 1 where there is no track.
NextSectorId(d, ch) ==
    IF InTrackMap(d, ch.h, ch.c)
    THEN (get_sector_ct(d.track_pool[d.track_map[ch.h + 1][ch.c + 1] + 1])
             % Cardinality(SectorIds)) + 1
    ELSE 1

RECURSIVE SectorTotal(_, _)
\* The sectors of the tracks k.. of the pool.
SectorTotal(pool, k) ==
    IF k > Len(pool) THEN 0
    ELSE get_sector_ct(pool[k]) + SectorTotal(pool, k + 1)

DiskInit ==
    /\ disk \in {new(f) : f \in DiskFormats}
    /\ dres = NoCall
    /\ track = NewByteStreamTrack("Mfm", TrackCh)
    /\ res = NoCall
    /\ last_write = None

\* DiskImage::add_track_bytestream
AddTrackByteStream ==
    /\ dres = NoCall
    /\ Len(disk.track_pool) < MaxTracks
    /\ \E ch \in DiskChSet :
       \E r \in {add_track_bytestream(disk, "Mfm", ch)} :
          /\ disk' = r.disk
          /\ dres' = [op |-> "add_track_bytestream", ch |-> ch,
                      status |-> r.status]
    /\ UNCHANGED <<track, res, last_write>>

\* DiskImage::add_track_bitstream
AddTrackBitStream ==
    /\ dres = NoCall
    /\ Len(disk.track_pool) < MaxTracks
    /\ \E ch \in DiskChSet :
       \E data \in DiskTrackImages(ch) :
       \E weak \in WeakMasks(data) :
       \E r \in {add_track_bitstream(disk, "Mfm", ch, data, weak)} :
          /\ disk' = r.disk
          /\ dres' = [op |-> "add_track_bitstream", ch |-> ch,
                      data_len |-> RawLen(data),
                      weak_len |-> IF weak = None THEN None
                                   ELSE Some(Len(Unwrap(weak))),
                      weak_set |-> IF weak = None THEN FALSE
                                   ELSE HasSetBit(Unwrap(weak)),
                      status |-> r.status]
    /\ UNCHANGED <<track, res, last_write>>

\* DiskImage::master_sector
DiskMasterSector ==
    /\ dres = NoCall
    /\ SectorTotal(disk.track_pool, 1) < MaxSectors
    /\ \E ch \in DiskChSet :
       \E sd \in {DiskSectorDescriptor(NextSectorId(disk, ch))} :
       \E chs \in {DiskChs(ch.c, ch.h, sd.id)} :
       \E r \in {master_sector(disk, chs, sd)} :
          /\ disk' = r.disk
          /\ dres' = [op |-> "master_sector", chs |-> chs, sd |-> sd,
                      status |-> r.status]
    /\ UNCHANGED <<track, res, last_write>>

\* DiskImage::next_sector_on_track
NextSectorOnTrack ==
    /\ dres = NoCall
    /\ \E ch \in DiskChSet, s \in SectorIds, at_end \in EndOfTrack :
       \E chs \in {DiskChs(ch.c, ch.h, s)} :
       \E r \in {next_sector_on_track(disk, chs, at_end)} :
          dres' = [op |-> "next_sector_on_track", chs |-> chs,
                   status |-> r.status, value |-> r.value]
    /\ UNCHANGED <<disk, track, res, last_write>>

\* DiskImage::read_sector
DiskReadSector ==
    /\ dres = NoCall
    /\ \E ch \in DiskChSet, debug \in BOOLEAN :
       \E chs \in {DiskChs(ch.c, ch.h, 1)} :
       \E r \in {disk_read_sector(disk, chs, None, "DataOnly", debug)} :
          dres' = [op |-> "read_sector", chs |-> chs, n |-> None,
                   scope |-> "DataOnly", status |-> r.status, result |-> r]
    /\ UNCHANGED <<disk, track, res, last_write>>

\* DiskImage::normalize
Normalize ==
    /\ dres = NoCall
    /\ disk' = normalize(disk)
    /\ dres' = [op |-> "normalize", status |-> "Ok",
                removed |-> TrackCt(disk) - TrackCt(disk')]
    /\ UNCHANGED <<track, res, last_write>>

\* DiskImage::remove_empty_tracks
RemoveEmptyTracks ==
    /\ dres = NoCall
    /\ disk' = remove_empty_tracks(disk)
    /\ dres' = [op |-> "remove_empty_tracks", status |-> "Ok",
                removed |-> TrackCt(disk) - TrackCt(disk')]
    /\ UNCHANGED <<track, res, last_write>>

\* The caller takes the result.
DiskReturn ==
    /\ dres # NoCall
    /\ dres.status # "Panic"
    /\ dres' = NoCall
    /\ UNCHANGED <<disk, track, res, last_write>>

DiskNext ==
    \/ AddTrackByteStream
    \/ AddTrackBitStream
    \/ DiskMasterSector
    \/ NextSectorOnTrack
    \/ DiskReadSector
    \/ Normalize
    \/ RemoveEmptyTracks
    \/ DiskReturn

DiskSpec == DiskInit /\ [][DiskNext]_vars

(***************************************************************************)
(* The state machine of the floppy formats: a blank disk of some format,   *)
(* and the conversions between a format and its size in bytes.             *)
(***************************************************************************)
\* The tags of the format table, and the tag of no format.
TableFormats ==
    {"PcFloppy160", "PcFloppy180", "PcFloppy320", "PcFloppy360",
     "PcFloppy720", "PcFloppy1200", "PcFloppy1440", "PcFloppy2880"}

FloppyFormats == TableFormats \cup {"Unknown"}

\* The sizes converted: the multiples of a 40-sector run up to MaxSizeUnits
\* of them, which include the sizes of the table, and the sizes next to
\* those of the table.
MaxSizeUnits == 144

Sizes ==
    {k * (40 * DEFAULT_SECTOR_SIZE) : k \in 0..MaxSizeUnits}
    \cup UNION {{size(f) - 1, size(f) + 1} : f \in TableFormats}

FormatInit ==
    /\ disk \in {new(f) : f \in FloppyFormats}
    /\ dres = NoCall
    /\ track = NewByteStreamTrack("Mfm", TrackCh)
    /\ res = NoCall
    /\ last_write = None

\* FloppyFormat::size
FormatSize ==
    /\ dres = NoCall
    /\ \E f \in FloppyFormats :
          dres' = [op |-> "size", format |-> f, size |-> size(f),
                   status |-> "Ok"]
    /\ UNCHANGED <<disk, track, res, last_write>>

\* FloppyFormat::from(usize)
FormatFromSize ==
    /\ dres = NoCall
    /\ \E sz \in Sizes :
          dres' = [op |-> "from", size |-> sz, format |-> from_size(sz),
                   status |-> "Ok"]
    /\ UNCHANGED <<disk, track, res, last_write>>

FormatNext ==
    \/ FormatSize
    \/ FormatFromSize
    \/ DiskReturn

FormatSpec == FormatInit /\ [][FormatNext]_vars

(***************************************************************************)
(* The state machine of a load: a driver adds the tracks of each head      *)
(* cylinder by cylinder, some of them without a sector, and the disk is    *)
(* normalised.                                                             *)
(***************************************************************************)
\* The number of tracks a load adds.
MaxLoadTracks == 4

\* The position of the next track of head h.
NextCh(d, h) == [c |-> Len(d.track_map[h + 1]), h |-> h]

\* DiskImage::add_track_bytestream for the next cylinder of a head: the
\* track holds no sector.
LoadEmptyTrack ==
    /\ dres = NoCall
    /\ Len(disk.track_pool) < MaxLoadTracks
    /\ \E h \in {0, 1} :
       \E ch \in {NextCh(disk, h)} :
       \E r \in {add_track_bytestream(disk, "Mfm", ch)} :
          /\ disk' = r.disk
          /\ dres' = [op |-> "add_track_bytestream", ch |-> ch,
                      status |-> r.status]
    /\ UNCHANGED <<track, res, last_write>>

\* DiskImage::add_track_bitstream for the next cylinder of a head: the
\* image holds a sector.
LoadTrack ==
    /\ dres = NoCall
    /\ Len(disk.track_pool) < MaxLoadTracks
    /\ \E h \in {0, 1} :
       \E ch \in {NextCh(disk, h)} :
       \E data \in DiskTrackImages(ch) :
       \E r \in {add_track_bitstream(disk, "Mfm", ch, data, None)} :
          /\ disk' = r.disk
          /\ dres' = [op |-> "add_track_bitstream", ch |-> ch,
                      data_len |-> RawLen(data), weak_len |-> None,
                      weak_set |-> FALSE, status |-> r.status]
    /\ UNCHANGED <<track, res, last_write>>

LoadNext ==
    \/ LoadEmptyTrack
    \/ LoadTrack
    \/ Normalize
    \/ RemoveEmptyTracks
    \/ DiskReturn

LoadSpec == DiskInit /\ [][LoadNext]_vars

(***************************************************************************)
(* Properties                                                              *)
(***************************************************************************)
\* The call with the caller is a sector call on an MFM BitStream track.
BitStreamCall(op) ==
    /\ res.op = op
    /\ track.kind = "BitStream"
    /\ track.data.codec = "Mfm"

\* The metadata items of kind elem of the track under test, in track order.
ItemsOf(elem) == SelectSeq(track.metadata, LAMBDA it : it.elem = elem)

\* The IDAM item a Data item belongs to: the last IDAM that starts before it.
IdamOf(start) ==
    LET before == SelectSeq(ItemsOf("Idam"), LAMBDA it : it.start < start)
    IN  before[Len(before)]

\* The Data items whose IDAM names the sector chs, in track order.
DataOfSector(chs) ==
    SelectSeq(ItemsOf("Data"),
              LAMBDA it : ChsFromChsn(Unwrap(IdamOf(it.start).chsn)) = chs)

\* C1: read-after-write on a BitStream track.  When write_sector(chs, None,
\* payload) has returned Ok with the data written and the next call is
\* read_sector(chs, None, DataOnly) of the same sector, whose address CRC is
\* valid, the read returns Ok, the payload byte for byte, and
\* data_crc_error = false.
C1_ReadAfterWrite ==
    (/\ BitStreamCall("read_sector")
     /\ last_write # None
     /\ res.chs = Unwrap(last_write).chs
     /\ res.n = None
     /\ res.scope = "DataOnly"
     /\ res.bit_index # None
     /\ Unwrap(res.bit_index).address_crc)
    => /\ res.result.status = "Ok"
       /\ res.result.read_buf = Unwrap(last_write).write_data
       /\ ~res.result.data_crc_error

\* C2: the Data item the sector lookup of a BitStream track returns belongs
\* to an IDAM with the requested (C, H, S), and with the requested N when
\* one is given, and the CHSN reported is the CHSN of that IDAM.
C2_LookupMatchesLastIdam ==
    (/\ BitStreamCall("read_sector") \/ BitStreamCall("write_sector")
     /\ res.bit_index # None)
    => LET idx == Unwrap(res.bit_index)
           idam == Unwrap(IdamOf(idx.start).chsn)
       IN  /\ ChsFromChsn(idam) = res.chs
           /\ res.n = None \/ idam.n = Unwrap(res.n)
           /\ idx.chsn = idam

\* C3: first match wins.  On a BitStream track where several IDAM/Data
\* pairs share the requested (C, H, S), a read_sector that reads data reads
\* it from the first of them.
C3_FirstMatchWins ==
    (/\ BitStreamCall("read_sector")
     /\ res.n = None
     /\ Len(DataOfSector(res.chs)) >= 2
     /\ res.result.status = "Ok")
    => /\ res.bit_index # None
       /\ Unwrap(res.bit_index).start = DataOfSector(res.chs)[1].start

\* The call with the caller is a read_sector or a write_sector the track
\* supports: an MFM BitStream track or a ByteStream track, and no DataBlock
\* read of a ByteStream track.
SectorCall ==
    /\ res.op \in {"read_sector", "write_sector"}
    /\ track.kind = "BitStream" => track.data.codec = "Mfm"
    /\ ~(track.kind = "ByteStream" /\ res.op = "read_sector"
         /\ res.scope = "DataBlock")

\* The headers stored on the track under test for sector id s, in track
\* order: the IDAMs of a BitStream track, the records of a ByteStream track.
HeadersOf(s) ==
    IF track.kind = "BitStream"
    THEN LET idams == SelectSeq(ItemsOf("Idam"),
                                LAMBDA it : Unwrap(it.chsn).s = s)
         IN  [i \in 1..Len(idams) |->
                [c |-> Unwrap(idams[i].chsn).c, h |-> Unwrap(idams[i].chsn).h,
                 n |-> Unwrap(idams[i].chsn).n,
                 address_crc |-> idams[i].address_crc]]
    ELSE LET recs == SelectSeq(track.sectors, LAMBDA si : si.sector_id = s)
         IN  [i \in 1..Len(recs) |->
                [c |-> recs[i].cylinder_id, h |-> recs[i].head_id,
                 n |-> recs[i].n,
                 address_crc |-> ~recs[i].address_crc_error]]

\* The track holds sector id s once, with a data field and a valid
\* address CRC.
HoldsOnce(s) ==
    /\ Len(HeadersOf(s)) = 1
    /\ HeadersOf(s)[1].address_crc
    /\ track.kind = "BitStream" =>
         \A i \in 1..Len(track.metadata) :
            (track.metadata[i].elem = "Idam"
             /\ Unwrap(track.metadata[i].chsn).s = s)
            => /\ i < Len(track.metadata)
               /\ track.metadata[i + 1].elem = "Data"

\* C4: read_sector and write_sector return DataError when the track holds
\* no sector with the requested id, on BitStream and ByteStream tracks.
C4_AbsentSectorIsDataError ==
    (SectorCall /\ Len(HeadersOf(res.chs.s)) = 0)
    => res.result.status = "DataError"

\* C5: a read_sector with the physical chs of a track that holds the
\* requested sector id once succeeds, returns the payload, and reports
\* wrong_cylinder exactly when the stored cylinder id differs from chs.c
\* and wrong_head exactly when the stored head id differs from chs.h.
C5_WrongCylinderHeadFlags ==
    (/\ SectorCall
     /\ res.op = "read_sector"
     /\ res.n = None
     /\ HoldsOnce(res.chs.s))
    => LET hd == HeadersOf(res.chs.s)[1]
       IN  /\ res.result.status = "Ok"
           /\ res.result.data_len = NToBytes(hd.n)
           /\ res.result.wrong_cylinder = (hd.c # res.chs.c)
           /\ res.result.wrong_head = (hd.h # res.chs.h)

\* C6: N handling of read_sector on a BitStream track that holds the
\* requested sector once with size code N.  Without n_override the read
\* has data_len = 128 << N; with n_override = x and debug = false it fails
\* with DataError when N # x and has data_len = 128 << N when N = x; with
\* n_override = x and debug = true it succeeds with data_len = 128 << x.
C6_SizeCodeHandling ==
    (/\ BitStreamCall("read_sector")
     /\ HoldsOnce(res.chs.s)
     /\ HeadersOf(res.chs.s)[1].c = res.chs.c
     /\ HeadersOf(res.chs.s)[1].h = res.chs.h)
    => LET idam_n == HeadersOf(res.chs.s)[1].n
           ok(len) == /\ res.result.status = "Ok"
                      /\ res.result.data_len = len
       IN  IF res.n = None THEN ok(NToBytes(idam_n))
           ELSE IF res.debug THEN ok(NToBytes(Unwrap(res.n)))
           ELSE IF idam_n # Unwrap(res.n)
                THEN res.result.status = "DataError"
                ELSE ok(NToBytes(idam_n))

\* The lookup of the call with the caller found a Data item, and the CHSN
\* it reports is the one asked for.
LookupMatched ==
    /\ res.bit_index # None
    /\ ChsFromChsn(Unwrap(res.bit_index).chsn) = res.chs
    /\ res.n = None \/ Unwrap(res.bit_index).chsn.n = Unwrap(res.n)

\* C7: address-CRC handling of read_sector on a BitStream track.  When the
\* IDAM CRC of the matched sector is invalid, a non-debug read returns Ok
\* with data_len = 0, an empty read_buf and address_crc_error = true, and a
\* debug read returns Ok with data_len = 128 << N and address_crc_error =
\* true; when the IDAM CRC is valid, address_crc_error = false.
C7_AddressCrcHandling ==
    (BitStreamCall("read_sector") /\ LookupMatched)
    => LET idx == Unwrap(res.bit_index)
       IN  IF idx.address_crc THEN ~res.result.address_crc_error
           ELSE /\ res.result.status = "Ok"
                /\ res.result.address_crc_error
                /\ IF res.debug
                   THEN res.result.data_len = NToBytes(idx.chsn.n)
                   ELSE /\ res.result.data_len = 0
                        /\ res.result.read_buf = <<>>

\* C7, its case: a non-debug read of a sector whose IDAM CRC is invalid has
\* returned.
C7_Witness ==
    /\ BitStreamCall("read_sector")
    /\ LookupMatched
    /\ ~Unwrap(res.bit_index).address_crc
    /\ ~res.debug
    /\ res.result.status = "Ok"
    /\ res.result.address_crc_error

\* The write_sector with the caller had n_override = None and a buffer whose
\* length differs from 128 << N of the sector it matched.
SizeMismatchWrite ==
    /\ SectorCall
    /\ res.op = "write_sector"
    /\ res.n = None
    /\ IF track.kind = "BitStream"
       THEN /\ res.bit_index # None
            /\ NToBytes(Unwrap(res.bit_index).chsn.n) # Len(res.write_data)
       ELSE /\ Len(HeadersOf(res.chs.s)) > 0
            /\ NToBytes(HeadersOf(res.chs.s)[1].n) # Len(res.write_data)

\* The write_sector with the caller matched a sector of a BitStream track
\* whose IDAM CRC is invalid, and was not a debug write.
BadAddressWrite ==
    /\ track.kind = "BitStream"
    /\ ~Unwrap(res.bit_index).address_crc
    /\ ~res.debug

\* C8 as stated: write_sector with n_override = None and a buffer whose
\* length differs from 128 << N of the matched sector returns
\* ParameterError and leaves the stored bytes unchanged.
C8_SizeMismatchIsParameterError ==
    SizeMismatchWrite
    => /\ res.result.status = "ParameterError"
       /\ res.result.track = res.hash_before

\* C8, amended: such a write leaves the stored bytes unchanged, and returns
\* ParameterError unless it is a non-debug write to a BitStream sector
\* whose IDAM CRC is invalid, which returns Ok with address_crc_error = true.
C8_SizeMismatchAmended ==
    SizeMismatchWrite
    => /\ res.result.track = res.hash_before
       /\ IF BadAddressWrite
          THEN /\ res.result.status = "Ok"
               /\ res.result.address_crc_error
          ELSE res.result.status = "ParameterError"

\* C8, its case: a write with a buffer of the wrong size to a BitStream
\* sector with a valid IDAM CRC has returned ParameterError.
C8_Witness ==
    /\ SizeMismatchWrite
    /\ track.kind = "BitStream"
    /\ Unwrap(res.bit_index).address_crc
    /\ res.result.status = "ParameterError"

\* C9: the result buffer of a read_sector that returned Ok with data read.
\* Scope DataOnly gives data_idx = 0 and Len(read_buf) = data_len, scope
\* DataBlock gives data_idx = 4 and Len(read_buf) = data_len + 6, and the
\* payload slice lies inside read_buf; also on a ByteStream track that
\* holds several sectors with the same id.
C9_ResultBufferShape ==
    (/\ res.op = "read_sector"
     /\ res.result.status = "Ok"
     /\ res.result.data_len > 0)
    => /\ res.result.data_idx + res.result.data_len <= Len(res.result.read_buf)
       /\ IF res.scope = "DataOnly"
          THEN /\ res.result.data_idx = 0
               /\ Len(res.result.read_buf) = res.result.data_len
          ELSE /\ res.result.data_idx = 4
               /\ Len(res.result.read_buf) = res.result.data_len + 6

\* C10: read_sector with scope DataBlock on a ByteStream track returns
\* ParameterError to its caller.
C10_DataBlockOnByteStream ==
    (/\ res.op = "read_sector"
     /\ track.kind = "ByteStream"
     /\ res.scope = "DataBlock")
    => res.result.status = "ParameterError"

\* The sectors of the track under test in physical order, each with its id
\* and size code: the Data items of a BitStream track, the records of a
\* ByteStream track.
SectorsInOrder ==
    IF track.kind = "BitStream"
    THEN LET items == ItemsOf("Data")
         IN  [i \in 1..Len(items) |->
                [s |-> Unwrap(items[i].chsn).s, n |-> Unwrap(items[i].chsn).n]]
    ELSE [i \in 1..Len(track.sectors) |->
            [s |-> track.sectors[i].sector_id, n |-> track.sectors[i].n]]

\* The number of sectors up to and including the first one with id eot, all
\* of them when there is none.
CountToEot(eot) ==
    LET at == {i \in 1..Len(SectorsInOrder) : SectorsInOrder[i].s = eot}
    IN  IF at = {} THEN Len(SectorsInOrder)
        ELSE CHOOSE i \in at : \A j \in at : i <= j

\* C11: read_all_sectors(ch, N, eot) on a track whose sectors all have size
\* code N returns the sectors up to and including the first one whose id is
\* eot: sectors_read is their count and read_buf has sectors_read * (128 << N)
\* bytes, on BitStream and ByteStream tracks.
C11_ReadAllSectorsStopsAtEot ==
    (/\ res.op = "read_all_sectors"
     /\ Len(SectorsInOrder) > 0
     /\ \A i \in 1..Len(SectorsInOrder) : SectorsInOrder[i].n = res.n)
    => /\ res.result.status = "Ok"
       /\ res.result.sectors_read = CountToEot(res.eot)
       /\ Len(res.result.read_buf) = CountToEot(res.eot) * NToBytes(res.n)

\* C12: get_next_id walks the track in physical order and wraps.  Asked from
\* an entry of the list it returns the entry after it, the first after the
\* last, so that feeding the result back visits every entry in order; it
\* returns None when the track is empty or the id is not on the track.
C12_NextIdWalksInOrder ==
    (res.op = "get_next_id")
    => IF res.from = 0 THEN res.result = None
       ELSE LET ids == NextIdList(track, res.chs)
                next == ids[(res.from % Len(ids)) + 1]
            IN  /\ res.result # None
                /\ Unwrap(res.result).s = next.s
                /\ Unwrap(res.result).n = next.n

\* C19: operations the track variant does not support return
\* UnsupportedFormat and leave the track unchanged: master_sector on a
\* BitStream track, format on a ByteStream track and format on a BitStream
\* track whose stream is not MFM; master_sector on a ByteStream track
\* succeeds and appends exactly one sector record.
C19_VariantIncompatible ==
    [][(res = NoCall /\ res' # NoCall) =>
         /\ (res'.op = "master_sector" /\ track.kind = "BitStream")
            => (res'.status = "UnsupportedFormat" /\ track' = track)
         /\ (res'.op = "format"
             /\ (track.kind = "ByteStream" \/ track.data.codec # "Mfm"))
            => (res'.status = "UnsupportedFormat" /\ track' = track)
         /\ (res'.op = "master_sector" /\ track.kind = "ByteStream")
            => /\ res'.status = "Ok"
               /\ track'.kind = "ByteStream"
               /\ Len(track'.sectors) = Len(track.sectors) + 1
               /\ SubSeq(track'.sectors, 1, Len(track.sectors))
                    = track.sectors]_vars

\* C19, its case: format has returned UnsupportedFormat on a BitStream track
\* whose stream is not MFM.
C19_Witness ==
    /\ res.op = "format"
    /\ res.status = "UnsupportedFormat"
    /\ track.kind = "BitStream"
    /\ track.data.codec # "Mfm"

(***************************************************************************)
(* Properties of the disk                                                  *)
(***************************************************************************)
\* The track the map holds for head h and cylinder c.
TrackAt(d, h, c) == d.track_pool[d.track_map[h + 1][c + 1] + 1]

\* C13: next_sector_on_track(chs), for a cylinder and head present in
\* track_map whose track holds k physical sectors, returns
\* Some(CHS(chs.c, chs.h, chs.s + 1)) when chs.s < k and None when chs.s = k.
C13_NextSectorOnTrack ==
    (dres.op = "next_sector_on_track"
        /\ InTrackMap(disk, dres.chs.h, dres.chs.c))
    => LET k == get_sector_count(TrackAt(disk, dres.chs.h, dres.chs.c))
       IN  /\ dres.chs.s < k
              => /\ dres.status = "Ok"
                 /\ dres.value = Some(DiskChs(dres.chs.c, dres.chs.h,
                                              dres.chs.s + 1))
           /\ dres.chs.s = k
              => /\ dres.status = "Ok"
                 /\ dres.value = None

\* No entry has been removed from the track map: every track of the pool
\* was given one entry when it was added.
NotNormalised == TrackCt(disk) = Len(disk.track_pool)

\* C14: after successful add_track_* calls in any order of cylinders and
\* before normalisation, the track that track_map holds for head h at index
\* c is the track of head h and cylinder c.
C14_TrackMapIndexedByHeadCylinder ==
    NotNormalised
    => \A h \in 0..(Len(disk.track_map) - 1) :
          \A c \in 0..(Len(disk.track_map[h + 1]) - 1) :
             /\ InTrackPool(disk, disk.track_map[h + 1][c + 1])
             /\ TrackAt(disk, h, c).head = h
             /\ TrackAt(disk, h, c).cylinder = c

\* Every index of the track map of d is below the length of the pool and
\* stands in the map once.
MapIntegrity(d) ==
    /\ \A h \in 1..Len(d.track_map) : \A c \in 1..Len(d.track_map[h]) :
          InTrackPool(d, d.track_map[h][c])
    /\ \A h1, h2 \in 1..Len(d.track_map) :
          \A c1 \in 1..Len(d.track_map[h1]), c2 \in 1..Len(d.track_map[h2]) :
             d.track_map[h1][c1] = d.track_map[h2][c2] => (h1 = h2 /\ c1 = c2)

\* Track b is track a, with sectors mastered onto it or none.
SameTrack(a, b) ==
    \/ b = a
    \/ /\ a.kind = "ByteStream" /\ b.kind = "ByteStream"
       /\ a.cylinder = b.cylinder /\ a.head = b.head
       /\ Len(b.sectors) >= Len(a.sectors)
       /\ SubSeq(b.sectors, 1, Len(a.sectors)) = a.sectors

\* The pool after a step holds the tracks it held, each at its index.
PoolStable ==
    /\ Len(disk'.track_pool) >= Len(disk.track_pool)
    /\ \A i \in 1..Len(disk.track_pool) :
          /\ SameTrack(disk.track_pool[i], disk'.track_pool[i])
          /\ dres'.op # "master_sector"
             => disk'.track_pool[i] = disk.track_pool[i]
    /\ dres'.op \in {"normalize", "remove_empty_tracks"}
       => /\ disk'.track_pool = disk.track_pool
          /\ \A h \in 1..Len(disk'.track_map) :
                \A c \in 1..Len(disk'.track_map[h]) :
                   \E b \in 1..Len(disk.track_map[h]) :
                      disk.track_map[h][b] = disk'.track_map[h][c]

\* C15: over add_track_bitstream, add_track_bytestream, master_sector,
\* normalize and remove_empty_tracks, every index stored in track_map is
\* below len(track_pool) and stored once, and no call removes or reorders
\* the entries of track_pool: remove_empty_tracks leaves the pool as it is,
\* and the indices that survive in the map are indices it held before.
C15_ReferentialIntegrity == [][PoolStable /\ MapIntegrity(disk')]_vars

\* C15 witness: remove_empty_tracks has removed the entry of an empty track
\* and another track is still mapped.
C15_Witness ==
    /\ dres.op = "remove_empty_tracks"
    /\ dres.removed > 0
    /\ TrackCt(disk) > 0

\* The step is the call op made on the disk at rest.
DiskCall(op) == dres = NoCall /\ dres'.op = op

\* The weak mask of the add_track_bitstream call that has returned differs
\* in length from its data.
WeakLengthDiffers ==
    dres'.weak_len # None /\ Unwrap(dres'.weak_len) # dres'.data_len

\* C16: add_track_bitstream returns SeekError when ch.h >= 2 and, the head
\* being valid, ParameterError when a weak mask is supplied whose length
\* differs from the data length, the pool and the map unchanged in both
\* cases; otherwise it succeeds, appends exactly one track to track_pool and
\* pushes len(track_pool) - 1 onto track_map[ch.h], the rest of the map
\* unchanged.
C16_AddTrackBitStream ==
    [][DiskCall("add_track_bitstream")
       => /\ dres'.ch.h >= 2
             => /\ dres'.status = "SeekError"
                /\ disk'.track_pool = disk.track_pool
                /\ disk'.track_map = disk.track_map
          /\ (dres'.ch.h < 2 /\ WeakLengthDiffers)
             => /\ dres'.status = "ParameterError"
                /\ disk'.track_pool = disk.track_pool
                /\ disk'.track_map = disk.track_map
          /\ (dres'.ch.h < 2 /\ ~WeakLengthDiffers)
             => /\ dres'.status = "Ok"
                /\ Len(disk'.track_pool) = Len(disk.track_pool) + 1
                /\ SubSeq(disk'.track_pool, 1, Len(disk.track_pool))
                      = disk.track_pool
                /\ disk'.track_pool[Len(disk'.track_pool)].kind = "BitStream"
                /\ disk'.track_map[dres'.ch.h + 1]
                      = Append(disk.track_map[dres'.ch.h + 1],
                               Len(disk'.track_pool) - 1)
                /\ disk'.track_map[2 - dres'.ch.h]
                      = disk.track_map[2 - dres'.ch.h]]_vars

\* C16 witness: add_track_bitstream with a weak mask as long as the data
\* has added the second track of the pool.
C16_Witness ==
    /\ dres.op = "add_track_bitstream"
    /\ dres.status = "Ok"
    /\ dres.weak_len = Some(dres.data_len)
    /\ Len(disk.track_pool) = 2

\* The CHS of the call that has returned is outside the track map: the
\* head is above 1 or the cylinder is not below the length of the head's map.
OutOfMap(chs) ==
    IF chs.h > 1 THEN TRUE ELSE chs.c >= Len(disk.track_map[chs.h + 1])

\* C17: DiskImage::read_sector returns SeekError, reading and modifying no
\* track, when chs.h > 1 or chs.c >= len(track_map[chs.h]); otherwise it
\* returns what read_sector of track_pool[track_map[chs.h][chs.c]] returns.
\* It never indexes track_map or track_pool out of bounds.
C17_DiskReadSector ==
    [][DiskCall("read_sector")
       => /\ disk' = disk
          /\ dres'.status # "Panic"
          /\ IF OutOfMap(dres'.chs)
             THEN dres'.result = ReadErr("SeekError")
             ELSE \E debug \in BOOLEAN :
                     dres'.result =
                        read_sector(TrackAt(disk, dres'.chs.h, dres'.chs.c),
                                    dres'.chs, dres'.n, dres'.scope, debug)]_vars

\* C17 witness: read_sector was asked for the cylinder just past the tracks
\* of a head that has tracks, and returned SeekError.
C17_Witness ==
    /\ dres.op = "read_sector"
    /\ dres.chs.h <= 1
    /\ dres.chs.c > 0
    /\ dres.chs.c = Len(disk.track_map[dres.chs.h + 1])
    /\ dres.status = "SeekError"

\* C18: master_sector(chs, sd) returns SeekError and leaves the disk
\* unchanged when chs.h >= 2 or chs.c >= len(track_map[chs.h]), the case
\* chs.c = len(track_map[chs.h]) included; it never indexes track_map out of
\* bounds.
C18_MasterSectorBounds ==
    [][DiskCall("master_sector")
       => /\ dres'.status # "Panic"
          /\ OutOfMap(dres'.chs)
             => /\ dres'.status = "SeekError"
                /\ disk' = disk]_vars

\* The tracks the map of the disk holds, and the entries of their sector
\* lists.
MappedTracks ==
    {TrackAt(disk, h, c) : <<h, c>> \in
        {hc \in (0..1) \X (0..MaxTracks) : InTrackMap(disk, hc[1], hc[2])}}

SectorEntries ==
    UNION {{get_sector_list(t)[i] : i \in 1..Len(get_sector_list(t))} :
              t \in MappedTracks}

\* C20: the cached DiskConsistency agrees with the tracks after every
\* mutation: consistent_sector_size = Some(n) implies that every sector-list
\* entry of every mapped track has 128 << N = n, deleted holds iff a sector
\* of a mapped track carries the deleted mark, and weak holds iff a mapped
\* track has weak bits.
C20_ConsistencyAgrees ==
    /\ disk.consistency.consistent_sector_size # None
       => \A e \in SectorEntries :
             NToBytes(e.chsn.n)
                = Unwrap(disk.consistency.consistent_sector_size)
    /\ disk.consistency.deleted <=> \E e \in SectorEntries : e.deleted_mark
    /\ disk.consistency.weak <=> \E t \in MappedTracks : has_weak_bits(t)

(***************************************************************************)
(* Properties of the floppy formats                                        *)
(***************************************************************************)
\* The format table: C, H, S, the size in bytes and the RPM of each tag.
FormatRow(c, h, s, bytes, rpm) ==
    [c |-> c, h |-> h, s |-> s, bytes |-> bytes, rpm |-> rpm]

FormatTable(f) ==
    CASE f = "PcFloppy160" -> FormatRow(40, 1, 8, 163840, "Rpm300")
      [] f = "PcFloppy180" -> FormatRow(40, 1, 9, 184320, "Rpm300")
      [] f = "PcFloppy320" -> FormatRow(40, 2, 8, 327680, "Rpm300")
      [] f = "PcFloppy360" -> FormatRow(40, 2, 9, 368640, "Rpm300")
      [] f = "PcFloppy720" -> FormatRow(80, 2, 9, 737280, "Rpm300")
      [] f = "PcFloppy1200" -> FormatRow(80, 2, 15, 1228800, "Rpm360")
      [] f = "PcFloppy1440" -> FormatRow(80, 2, 18, 1474560, "Rpm300")
      [] f = "PcFloppy2880" -> FormatRow(80, 2, 36, 2949120, "Rpm300")

\* C21: the size of each of the eight table tags is the byte count of the
\* table and C x H x S x 512 of its get_chs, the tag of that size is the tag
\* itself, and every size that is not in the table maps to Unknown.
C21_SizeTagMappingExact ==
    /\ (dres.op = "size" /\ dres.format \in TableFormats)
       => /\ dres.size = FormatTable(dres.format).bytes
          /\ dres.size = get_chs(dres.format).c * get_chs(dres.format).h
                            * get_chs(dres.format).s * 512
          /\ from_size(dres.size) = dres.format
    /\ dres.op = "from"
       => IF \E f \in TableFormats : FormatTable(f).bytes = dres.size
          THEN FormatTable(dres.format).bytes = dres.size
          ELSE dres.format = "Unknown"

\* C21 witness: a size next to one of the table has been converted.
C21_Witness ==
    /\ dres.op = "from"
    /\ dres.size = FormatTable("PcFloppy1440").bytes + 1

\* C22: DiskImage::new(T) yields, for every tag T of the format table, a
\* blank disk (empty track_pool, both track_map lists empty) whose
\* descriptor conforms to T: geometry = T.get_ch(), data_rate =
\* T.get_data_rate() and rpm = Some(T.get_rpm()), get_rpm being the RPM of
\* the table.
C22_NewDiskConforms ==
    (dres = NoCall /\ disk.disk_format \in TableFormats)
    => /\ disk.track_pool = <<>>
       /\ disk.track_map = <<(<<>>), (<<>>)>>
       /\ disk.image_format.geometry = get_ch(disk.disk_format)
       /\ disk.image_format.data_rate = get_data_rate(disk.disk_format)
       /\ get_rpm(disk.disk_format) = FormatTable(disk.disk_format).rpm
       /\ disk.image_format.rpm = Some(get_rpm(disk.disk_format))

\* C23: after add_track_bitstream(.., data, Some(weak)) has succeeded on an
\* MFM track, has_weak_bits of the new track holds iff weak has a set bit.
C23_WeakMaskSurfaced ==
    (dres.op = "add_track_bitstream" /\ dres.status = "Ok"
        /\ dres.weak_len # None)
    => LET t == disk.track_pool[Len(disk.track_pool)]
       IN  t.encoding = "Mfm" => (has_weak_bits(t) <=> dres.weak_set)

(***************************************************************************)
(* Further properties of the track                                         *)
(***************************************************************************)
\* read_sector(chs of chsn, None, DataOnly) on the track returns the
\* 128 << N bytes of the sector, all fill_byte, and no CRC error.
ReadsAsFilled(chsn, fill_byte) ==
    LET r == read_sector(track, ChsFromChsn(chsn), None, "DataOnly", FALSE)
    IN  /\ r.status = "Ok"
        /\ r.data_len = NToBytes(chsn.n)
        /\ r.data_idx + r.data_len <= Len(r.read_buf)
        /\ \A i \in 1..r.data_len : r.read_buf[r.data_idx + i] = fill_byte
        /\ ~r.address_crc_error
        /\ ~r.data_crc_error

\* C24: after format has succeeded on an MFM BitStream track the bit buffer
\* is as long as before, metadata and sector_ids are those of the rewritten
\* buffer, get_sector_list holds one entry per CHSN of the format buffer, in
\* its order, with both CRCs valid and not deleted, and read_sector of each
\* with scope DataOnly returns 128 << N fill bytes and no CRC error.
C24_FormatThenScan ==
    (res.op = "format" /\ res.status = "Ok")
    => /\ track.kind = "BitStream"
       /\ Len(track.data.sym) = Len(res.hash_before[2])
       /\ track.metadata
             = ScanTrackMetadata(track.data, ScanTrackMarkers(track.data))
       /\ track.sector_ids = GetSectorIds(track.metadata)
       /\ get_sector_list(track)
             = [i \in 1..Len(res.format_buffer) |->
                  [chsn |-> res.format_buffer[i],
                   address_crc_valid |-> TRUE,
                   data_crc_valid |-> TRUE,
                   deleted_mark |-> FALSE]]
       /\ \A i \in 1..Len(res.format_buffer) :
             ReadsAsFilled(res.format_buffer[i], FormatFill)

\* C24 witness: a format with two sectors has succeeded on a track that
\* held other sectors.
C24_Witness ==
    /\ res.op = "format"
    /\ res.status = "Ok"
    /\ Len(res.format_buffer) = 2
    /\ res.hash_before # get_hash(track)

RECURSIVE Tiles(_, _, _)
\* The records k.. of sectors start at offset at and follow one another up
\* to the offset total.
Tiles(sectors, k, at) ==
    IF k > Len(sectors) THEN at
    ELSE IF sectors[k].t_idx # at THEN -1
    ELSE Tiles(sectors, k + 1, at + sectors[k].len)

MatchedRecord(chs, n) ==
    LET at == {k \in 1..Len(track.sectors) :
                  /\ track.sectors[k].sector_id = chs.s
                  /\ (n = None \/ track.sectors[k].n = Unwrap(n))}
    IN  IF at = {} THEN 0 ELSE CHOOSE k \in at : \A j \in at : k <= j

\* C28: write_sector on a ByteStream track changes only bytes of the region
\* [t_idx, t_idx + len) of the sector it matches and never goes past
\* data.len(), under-dumped sectors (len below 128 << N) included; the bytes
\* of every other sector are unchanged.
C28_WriteStaysInSector ==
    (res.op = "write_sector" /\ track.kind = "ByteStream")
    => LET before == res.hash_before[2]
           k == MatchedRecord(res.chs, res.n)
       IN  /\ res.result.status # "Panic"
           /\ Len(track.data) = Len(before)
           /\ \A i \in 1..Len(before) :
                 track.data[i] # before[i]
                 => /\ k # 0
                    /\ i > track.sectors[k].t_idx
                    /\ i <= track.sectors[k].t_idx + track.sectors[k].len

\* C29: on a BitStream track has_sector_id(id), which is what is_id_valid
\* returns for a chs within the map, holds iff get_sector_list has an entry
\* with that sector id, and when it holds a read_sector(chs, None, DataOnly)
\* without debug does not fail with DataError; so also on tracks with an
\* orphan IDAM.
C29_PresenceAgreesWithList ==
    (track.kind = "BitStream" /\ res.op = "read_sector")
    => /\ has_sector_id(track, res.chs.s)
          <=> \E i \in 1..Len(get_sector_list(track)) :
                 get_sector_list(track)[i].chsn.s = res.chs.s
       /\ (has_sector_id(track, res.chs.s) /\ res.n = None
              /\ res.scope = "DataOnly" /\ ~res.debug)
          => res.result.status # "DataError"

\* The search positions read_all_sectors_bitstream passes to
\* get_first_sector_at_bit_index: 0, and the end of every Data item.
SearchPositions ==
    {0} \cup {ItemsOf("Data")[i].end : i \in 1..Len(ItemsOf("Data"))}

\* C30: read_all_sectors on a BitStream track terminates.  A search from a
\* position finds a Data item that starts at or after it and ends after its
\* own start, so that the next search starts beyond the item just read and no
\* Data item is read twice; when no sector id equals eot every sector is read,
\* sectors_read is their number and read_buf has sectors_read * (128 << N)
\* bytes; on a track with no sectors the call returns DataError.
C30_ReadAllSectorsTerminates ==
    (res.op = "read_all_sectors" /\ track.kind = "BitStream")
    => /\ \A b \in SearchPositions :
             LET tdir == get_first_sector_at_bit_index(track, b)
             IN  tdir # None
                 => /\ Unwrap(tdir).element_start >= b
                    /\ Unwrap(tdir).element_end > Unwrap(tdir).element_start
       /\ res.result.status = "Ok"
          => res.result.sectors_read <= Len(SectorsInOrder)
       /\ Len(SectorsInOrder) = 0 => res.result.status = "DataError"
       /\ (/\ Len(SectorsInOrder) > 0
           /\ \A i \in 1..Len(SectorsInOrder) : SectorsInOrder[i].s # res.eot)
          => /\ res.result.status = "Ok"
             /\ res.result.sectors_read = Len(SectorsInOrder)
             /\ Len(res.result.read_buf)
                   = res.result.sectors_read * NToBytes(res.n)

\* The sectors of the track a read of 128 << N bytes does not fit behind:
\* the read runs over the end of the stream.
ReadsPastEnd(n) ==
    {i \in 1..Len(ItemsOf("Data")) :
        read_exact_at(track, ItemsOf("Data")[i].start + 64,
                      NToBytes(n)).status # "Ok"}

\* C30, amended: as C30, but the call fails with IoError exactly when the
\* read of one of the sectors runs over the end of the stream; when no read
\* does and no sector id equals eot, every sector is read, sectors_read is
\* their number and read_buf has sectors_read * (128 << N) bytes.
C30_ReadAllSectorsAmended ==
    (res.op = "read_all_sectors" /\ track.kind = "BitStream")
    => /\ \A b \in SearchPositions :
             LET tdir == get_first_sector_at_bit_index(track, b)
             IN  tdir # None
                 => /\ Unwrap(tdir).element_start >= b
                    /\ Unwrap(tdir).element_end > Unwrap(tdir).element_start
       /\ res.result.status = "Ok"
          => res.result.sectors_read <= Len(SectorsInOrder)
       /\ Len(SectorsInOrder) = 0 => res.result.status = "DataError"
       /\ (/\ Len(SectorsInOrder) > 0
           /\ \A i \in 1..Len(SectorsInOrder) : SectorsInOrder[i].s # res.eot)
          => /\ res.result.status = "IoError" <=> ReadsPastEnd(res.n) # {}
             /\ res.result.status \in {"Ok", "IoError"}
             /\ res.result.status = "Ok"
                => /\ res.result.sectors_read = Len(SectorsInOrder)
                   /\ Len(res.result.read_buf)
                         = res.result.sectors_read * NToBytes(res.n)

\* C30 (witness): a BitStream track with two sectors, neither with the id eot,
\* has been read to its end.
C30_Witness ==
    /\ res.op = "read_all_sectors"
    /\ track.kind = "BitStream"
    /\ Len(SectorsInOrder) = 2
    /\ \A i \in 1..Len(SectorsInOrder) : SectorsInOrder[i].s # res.eot
    /\ res.result.status = "Ok"
    /\ res.result.sectors_read = 2

(***************************************************************************)
(* Properties of the normalisation                                         *)
(***************************************************************************)
\* C25: normalize removes entries from track_map only when at least 50% of
\* the tracks referenced by track_map have zero sectors, 2 * empty >= total,
\* for odd totals too; when fewer are empty track_map is left as it is, and
\* normalize never fails.
C25_NormaliseThreshold ==
    [][DiskCall("normalize")
       => /\ dres'.status = "Ok"
          /\ disk'.track_map # disk.track_map
             => 2 * EmptyTrackCt(disk) >= TrackCt(disk)
          /\ 2 * EmptyTrackCt(disk) < TrackCt(disk)
             => disk'.track_map = disk.track_map]_vars

\* The entries of map a stand in map b, in the order they have in a.
RECURSIVE Embeds(_, _)
Embeds(a, b) ==
    IF a = <<>> THEN TRUE
    ELSE IF b = <<>> THEN FALSE
    ELSE IF Head(a) = Head(b) THEN Embeds(Tail(a), Tail(b))
    ELSE Embeds(a, Tail(b))

\* The entries of the map of a head that refer to a track with a sector.
NonEmptyEntries(d, head) ==
    {head[i] : i \in {j \in 1..Len(head) :
                        get_sector_count(d.track_pool[head[j] + 1]) # 0}}

\* C26: after remove_empty_tracks no track referenced by track_map has zero
\* sectors, every non-empty track that was referenced is still referenced,
\* and the surviving entries of each head keep their relative order: of a
\* head whose odd cylinders are empty and whose even ones are not, the even
\* ones are left, in ascending order of their cylinder.
C26_RemoveEmptyTracks ==
    [][DiskCall("remove_empty_tracks")
       => \A h \in 1..Len(disk.track_map) :
             /\ EmptyTrackIdx(disk', disk'.track_map[h]) = {}
             /\ NonEmptyEntries(disk, disk.track_map[h])
                   = {disk'.track_map[h][i] :
                         i \in 1..Len(disk'.track_map[h])}
             /\ Embeds(disk'.track_map[h], disk.track_map[h])
             /\ (\A i \in 1..Len(disk.track_map[h]) :
                    i \in EmptyTrackIdx(disk, disk.track_map[h])
                       <=> i % 2 = 0)
                => disk'.track_map[h]
                      = [i \in 1..((Len(disk.track_map[h]) + 1) \div 2) |->
                            disk.track_map[h][2 * i - 1]]]_vars

\* C26 (witness): remove_empty_tracks has run on a head of four cylinders,
\* the odd ones empty, and has left the two even ones in their order.
C26_Witness ==
    /\ dres.op = "remove_empty_tracks"
    /\ dres.removed = 2
    /\ \E h \in 1..2 :
          /\ Len(disk.track_map[h]) = 2
          /\ disk.track_map[h][1] < disk.track_map[h][2]
          /\ disk.track_pool[disk.track_map[h][1] + 1].cylinder = 0
          /\ disk.track_pool[disk.track_map[h][2] + 1].cylinder = 2


====
